---- MODULE Spec2Model ----
(***************************************************************************)
(* A model of the "youlin" neighbourhood sharing page.                     *)
(*                                                                         *)
(* src/page.tsx   : the energy-delta variant (YouLinFullStack): listings,  *)
(*                  posting with +5/-3 energy, profile, edit/revoke, chat. *)
(* src/README.md  : the tier variant (YouLinV2): posting gated by          *)
(*                  getReputation(energy).canSeek.                         *)
(*                                                                         *)
(* One browser session is modelled.  React state is the session's          *)
(* variables; the hosted backend is the tables dbItems, profiles,          *)
(* dbConversations, dbMessages and the auth session.  Every async handler  *)
(* run is a record in `tasks` that holds what its closure captured at the  *)
(* render it was called from.  A remote call takes effect in the step that *)
(* handles its reply (the handler's continuation after the await), so runs *)
(* interleave at every await as they do in the browser; the messages query *)
(* of a chat can also be executed ahead of the handling of its reply.      *)
(* Text is a sequence of one-character strings.                            *)
(***************************************************************************)
EXTENDS Integers, Sequences, FiniteSets, TLC

\* ----------------------------------------------------------------- bounds
\* Most async runs in flight at once.
MaxTasks == 2
\* Most rows of the items table.
MaxItems == 2
\* Most rows of the conversations table.
MaxConvs == 2
\* Most messages written (rows of messages plus local-only messages).
MaxMsgs == 2
\* getReputation is evaluated on every integer score in -MaxScore..MaxScore.
MaxScore == 110

\* -------------------------------------------------------- program constants
\* useState<number>(10), and setEnergy(10) on sign-out.
DefaultEnergy == 10
\* postForm.type === 'offer' ? 5 : -3
OfferGain == 5
SeekCost == 3
\* postForm.type === 'seek' && energy < 3
SeekMinEnergy == 3
\* README.md: useState<number>(0)
TierDefaultEnergy == 0
\* README.md getReputation thresholds
Tier1Max == 1
Tier2Max == 10
Tier3Max == 30
Tier4Max == 100

\* ------------------------------------------------------------------- text
\* String.prototype.trim on a sequence of characters.
RECURSIVE TrimLeft(_)
TrimLeft(s) ==
    IF s # <<>> /\ Head(s) = " " THEN TrimLeft(Tail(s)) ELSE s

RECURSIVE TrimRight(_)
TrimRight(s) ==
    IF s # <<>> /\ s[Len(s)] = " " THEN TrimRight(SubSeq(s, 1, Len(s) - 1)) ELSE s

\* The text taken as typed, blanks included.
untrimmed(s) == s

trim(s) == TrimRight(TrimLeft(s))

\* Case folding of the letters the model uses.
ToLower(c) ==
    IF c = "A" THEN "a" ELSE IF c = "B" THEN "b" ELSE c

\* SQL LIKE of text s against pattern p, case-insensitively (ILIKE):
\* "%" matches any run of characters, "_" any one character.
RECURSIVE LikeMatch(_, _)
LikeMatch(s, p) ==
    IF p = <<>> THEN s = <<>>
    ELSE IF Head(p) = "%"
         THEN \/ LikeMatch(s, Tail(p))
              \/ (s # <<>> /\ LikeMatch(Tail(s), p))
    ELSE /\ s # <<>>
         /\ (Head(p) = "_" \/ ToLower(Head(p)) = ToLower(Head(s)))
         /\ LikeMatch(Tail(s), Tail(p))

\* .ilike('area', `%${currentArea}%`); a NULL area (the empty text here: the
\* code stores `area?.trim() || null`) matches no pattern.
ilike(area, filter) ==
    area # <<>> /\ LikeMatch(area, <<"%">> \o filter \o <<"%">>)

\* ------------------------------------------------------------------ values
Users == {"u1", "u2"}
NoUser == "none"
\* POPULAR_CITIES, two of them; currentCity starts at Shanghai.
Cities == {"Shanghai", "Beijing"}
Types == {"offer", "seek"}

\* What the user can type as a title, and as an area (draft or filter).
Titles == {<<>>, <<" ">>, <<"a">>}
Areas == {<<>>, <<"A", "b">>}
AreaFilters == {<<>>, <<"a">>, <<"b", "a">>}
\* The energy of each user's profiles row when the page is opened.
InitialProfiles == [u \in {"u1", "u2"} |-> IF u = "u1" THEN 4 ELSE 0]
\* What the user can type as an email and as a password; the account of an
\* email is the user whose number it is.
Emails == {<<>>, <<"1">>, <<"2", " ">>}
Passwords == {<<>>, <<"p">>}
AccountOf(email) ==
    IF email = <<"1">> THEN "u1" ELSE IF email = <<"2">> THEN "u2" ELSE NoUser

NoItem ==
    [id |-> 0, title |-> <<>>, description |-> <<>>, type |-> "offer",
     city |-> "", area |-> <<>>, status |-> "", user_id |-> NoUser, created_at |-> 0]

NoConversation ==
    [id |-> 0, temp |-> FALSE, item_id |-> 0, participant1_id |-> NoUser,
     participant2_id |-> NoUser, created_at |-> 0, last_message_at |-> 0]

NoToast == [message |-> "", type |-> ""]
\* activeModal === null
NoModal == "null"

EmptyPostForm == [title |-> <<>>, desc |-> <<>>, type |-> "offer", area |-> <<>>]
EmptyAuthForm == [email |-> <<>>, password |-> <<>>, isLogin |-> TRUE]

\* A run of an async function: its kind, the await it is at (pc), the state of
\* that remote call (st: "sent", then "ok" or "err" once the backend has
\* answered a query it executes ahead of the handling of the reply), what the
\* closure captured, and the rows of the reply.
NoTask ==
    [kind |-> "", pc |-> "", st |-> "sent",
     uid |-> NoUser, energy |-> 0, form |-> EmptyPostForm, auth |-> EmptyAuthForm,
     city |-> "", area |-> <<>>, item |-> NoItem, conv |-> NoConversation,
     text |-> <<>>, receiver |-> NoUser, sel |-> 0, rows |-> <<>>]

VARIABLES
    \* React state of the page (useState)
    user, energy, items, currentCity, currentArea,
    activeModal, selectedItem, isSubmitting, isLoading, toast,
    postForm, authForm, editForm, editingItem,
    messages, currentConversation, messageInput, isLoadingMessages,
    userItems, isLoadingUserItems,
    \* README.md: const reputation = useMemo(() => getReputation(energy), [energy])
    reputation,
    \* the auth listener registered by the mount effect, until its cleanup
    subscription,
    \* the backend
    session, profiles, dbItems, dbConversations, dbMessages, now,
    \* async runs in flight
    tasks

uiVars ==
    <<user, energy, items, currentCity, currentArea, activeModal, selectedItem,
      isSubmitting, isLoading, toast, postForm, authForm, editForm, editingItem,
      messages, currentConversation, messageInput, isLoadingMessages,
      userItems, isLoadingUserItems, reputation, subscription>>

dbVars == <<session, profiles, dbItems, dbConversations, dbMessages, now>>

vars == <<uiVars, dbVars, tasks>>

\* ------------------------------------------------------------- task helpers
NewTask(kind, pc) == [NoTask EXCEPT !.kind = kind, !.pc = pc]

RemoveAt(seq, i) == SubSeq(seq, 1, i - 1) \o SubSeq(seq, i + 1, Len(seq))

TaskIds == 1..Len(tasks)

\* Task i is the run of `kind` at its await `pc`, the call not yet executed.
Sent(i, kind, pc) ==
    tasks[i].kind = kind /\ tasks[i].pc = pc /\ tasks[i].st = "sent"

\* Task i is the run of `kind` at `pc`, and its read is answered with success
\* (ok) or failure: by the reply an Exec action produced earlier, or, when the
\* backend has not executed the read yet, by executing it now.
Answered(i, kind, pc, ok) ==
    /\ tasks[i].kind = kind /\ tasks[i].pc = pc
    /\ tasks[i].st \in {"sent", IF ok THEN "ok" ELSE "err"}

\* The rows of that answer: `fresh` is what the read returns now.
RowsOf(i, fresh) == IF tasks[i].st = "sent" THEN fresh ELSE tasks[i].rows

\* The reply to task i's call: nothing else of the task changes.
Reply(i, t) ==
    tasks' = [tasks EXCEPT ![i] = t]

\* A failed remote call: { data: null, error }.
Failed(t) == [t EXCEPT !.st = "err"]

\* ------------------------------------------------------------ render/commit
\* The React state and the runs in flight as one record; an action builds the
\* record of the next state from it and commits it.  userNew: setUser was given
\* a user object, which is a new object even for the same user id.  A toast is
\* taken down by its 3 s timer, which is taken to fire before the next step of
\* the page: no handler reads the toast.
Cur ==
    [user |-> user, energy |-> energy, items |-> items,
     currentCity |-> currentCity, currentArea |-> currentArea,
     activeModal |-> activeModal, selectedItem |-> selectedItem,
     isSubmitting |-> isSubmitting, isLoading |-> isLoading, toast |-> NoToast,
     postForm |-> postForm, authForm |-> authForm, editForm |-> editForm,
     editingItem |-> editingItem, messages |-> messages,
     currentConversation |-> currentConversation, messageInput |-> messageInput,
     isLoadingMessages |-> isLoadingMessages, userItems |-> userItems,
     isLoadingUserItems |-> isLoadingUserItems, reputation |-> reputation,
     subscription |-> subscription, tasks |-> tasks, userNew |-> FALSE]

\* A toast that replaces the text of every error with a fixed one.
showToastGeneric(n, message, type) ==
    [n EXCEPT !.toast = [message |-> IF type = "error" THEN "something went wrong"
                                                        ELSE message,
                         type |-> type]]

showToast(n, message, type) ==
    [n EXCEPT !.toast = [message |-> message, type |-> type]]

\* fetchItems up to its await: setIsLoading(true) and the query is sent.  As a
\* run of its own (the effect) or inside the run `t` that awaits it.
fetchItemsStart(n, city, area) ==
    [n EXCEPT !.isLoading = TRUE,
              !.tasks = Append(@, [NewTask("fetchItems", "fetchItems")
                                     EXCEPT !.city = city, !.area = area])]

\* useEffect(() => { fetchItems(); }, [fetchItems]): fetchItems is a new
\* function when currentCity or currentArea changed.
fetchItemsEffect(n) ==
    IF n.currentCity # currentCity \/ n.currentArea # currentArea
    THEN fetchItemsStart(n, n.currentCity, n.currentArea)
    ELSE n

\* fetchUserItems up to its await.
fetchUserItemsStart(n, uid) ==
    IF uid = NoUser THEN n
    ELSE [n EXCEPT !.isLoadingUserItems = TRUE,
                   !.tasks = Append(@, [NewTask("fetchUserItems", "fetchUserItems")
                                          EXCEPT !.uid = uid])]

\* useEffect(() => { if (activeModal === 'profile' && user) fetchUserItems(); },
\*           [activeModal, user, fetchUserItems])
profileEffect(n) ==
    IF (n.activeModal # activeModal \/ n.user # user \/ n.userNew)
       /\ n.activeModal = "profile" /\ n.user # NoUser
    THEN fetchUserItemsStart(n, n.user)
    ELSE n

\* initConversation up to its first await, called by the chat effect with the
\* state n of the render the effect belongs to.
initConversationStart(n, item) ==
    IF n.user = NoUser
    THEN \* setActiveModal('auth'): the next render's chat effect takes its
         \* else branch and clears the chat state.
         [showToast(n, "please sign in", "info")
            EXCEPT !.activeModal = "auth", !.messages = <<>>,
                   !.currentConversation = NoConversation]
    ELSE IF n.user = item.user_id
    THEN showToast(n, "cannot chat with yourself", "error")
    ELSE [n EXCEPT !.isLoadingMessages = TRUE,
                   !.tasks = Append(@, [NewTask("initConversation", "lookup")
                                          EXCEPT !.uid = n.user, !.item = item])]

\* useEffect(() => { if (activeModal === 'chat' && selectedItem) initConversation(selectedItem);
\*                   else if (activeModal !== 'chat') { setMessages([]); setCurrentConversation(null); } },
\*           [activeModal, selectedItem, initConversation])
chatEffect(n) ==
    IF n.activeModal # activeModal \/ n.selectedItem # selectedItem
       \/ n.user # user \/ n.userNew
    THEN IF n.activeModal = "chat" /\ n.selectedItem # NoItem
         THEN initConversationStart(n, n.selectedItem)
         ELSE IF n.activeModal # "chat"
         THEN [n EXCEPT !.messages = <<>>, !.currentConversation = NoConversation]
         ELSE n
    ELSE n

\* The render after a handler step: the effects whose dependencies changed run,
\* in the order the component declares them, and the state is committed.
Commit(n) ==
    LET m == chatEffect(profileEffect(fetchItemsEffect(n)))
    IN  /\ Len(m.tasks) <= MaxTasks
        /\ user' = m.user
        /\ energy' = m.energy
        /\ items' = m.items
        /\ currentCity' = m.currentCity
        /\ currentArea' = m.currentArea
        /\ activeModal' = m.activeModal
        /\ selectedItem' = m.selectedItem
        /\ isSubmitting' = m.isSubmitting
        /\ isLoading' = m.isLoading
        /\ toast' = m.toast
        /\ postForm' = m.postForm
        /\ authForm' = m.authForm
        /\ editForm' = m.editForm
        /\ editingItem' = m.editingItem
        /\ messages' = m.messages
        /\ currentConversation' = m.currentConversation
        /\ messageInput' = m.messageInput
        /\ isLoadingMessages' = m.isLoadingMessages
        /\ userItems' = m.userItems
        /\ isLoadingUserItems' = m.isLoadingUserItems
        /\ reputation' = m.reputation
        /\ subscription' = m.subscription
        /\ tasks' = m.tasks

\* ------------------------------------------------------------- the backend
\* .order('created_at', { ascending }) as an insertion sort of the rows.
RECURSIVE InsertOrdered(_, _, _)
InsertOrdered(r, sorted, ascending) ==
    IF sorted = <<>> THEN <<r>>
    ELSE IF (ascending /\ r.created_at <= Head(sorted).created_at)
            \/ (~ascending /\ r.created_at >= Head(sorted).created_at)
         THEN <<r>> \o sorted
         ELSE <<Head(sorted)>> \o InsertOrdered(r, Tail(sorted), ascending)

RECURSIVE order(_, _)
order(rows, ascending) ==
    IF rows = <<>> THEN <<>>
    ELSE InsertOrdered(Head(rows), order(Tail(rows), ascending), ascending)

\* The query without .eq('status', 'active').
SelectItemsAnyStatus(city, area) ==
    order(SelectSeq(dbItems, LAMBDA r : /\ r.city = city
                                        /\ (area = <<>> \/ ilike(r.area, area))),
          FALSE)

\* fetchItems' query: .eq('city', city).eq('status', 'active'), .ilike('area', ..)
\* when the filter text is non-empty, newest first.
SelectItems(city, area) ==
    order(SelectSeq(dbItems, LAMBDA r : /\ r.city = city
                                        /\ r.status = "active"
                                        /\ (area = <<>> \/ ilike(r.area, area))),
          FALSE)

\* fetchUserItems' query: .eq('user_id', user.id), newest first.
SelectUserItems(uid) ==
    order(SelectSeq(dbItems, LAMBDA r : r.user_id = uid), FALSE)

\* initConversation's lookup: .from('conversations').select('*').eq('item_id', item.id)
SelectConversations(itemId) ==
    SelectSeq(dbConversations, LAMBDA c : c.item_id = itemId)

\* initConversation's history: .eq('conversation_id', convId), oldest first.
SelectMessages(convId) ==
    order(SelectSeq(dbMessages, LAMBDA m : m.conversation_id = convId), TRUE)

\* The inserted row without status: 'active' (the column's default taken to
\* be another status).
NewItemRowInactive(t) ==
    [id |-> Len(dbItems) + 1,
     title |-> trim(t.form.title),
     description |-> trim(t.form.desc),
     type |-> t.form.type,
     city |-> t.city,
     area |-> trim(t.form.area),
     status |-> "inactive",
     user_id |-> t.uid,
     created_at |-> now + 1]

\* The row handlePublish inserts for the run t.
NewItemRow(t) ==
    [id |-> Len(dbItems) + 1,
     title |-> trim(t.form.title),
     description |-> trim(t.form.desc),
     type |-> t.form.type,
     city |-> t.city,
     area |-> trim(t.form.area),
     status |-> "active",
     user_id |-> t.uid,
     created_at |-> now + 1]

\* .from('items').insert([...]) of the run t: the table after it.
InsertItem(t) == Append(dbItems, NewItemRow(t))

\* energy + energyChange of a handlePublish run.
newEnergy(t) ==
    t.energy + (IF t.form.type = "offer" THEN OfferGain ELSE -SeekCost)

\* An increment of the stored value in place of the write of newEnergy.
UpdateProfileIncrement(t) ==
    [profiles EXCEPT ![t.uid] =
        @ + (IF t.form.type = "offer" THEN OfferGain ELSE -SeekCost)]

\* .from('profiles').update({ energy: newEnergy }).eq('id', user.id) of the run
\* t: the table after it.
UpdateProfile(t) == [profiles EXCEPT ![t.uid] = newEnergy(t)]

\* A hard delete in place of the status update: the row leaves the table.
DeleteItemRow(t) ==
    SelectSeq(dbItems, LAMBDA r : ~(r.id = t.item.id /\ r.user_id = t.uid))

\* .from('items').update({ status: 'inactive' }).eq('id', item.id).eq('user_id', user.id)
\* of the run t: the table after it.
UpdateItemStatus(t) ==
    [k \in DOMAIN dbItems |->
       IF dbItems[k].id = t.item.id /\ dbItems[k].user_id = t.uid
       THEN [dbItems[k] EXCEPT !.status = "inactive"]
       ELSE dbItems[k]]

\* The edit that also writes status: 'active'.
UpdateItemFieldsReactivating(t) ==
    [k \in DOMAIN dbItems |->
       IF dbItems[k].id = t.item.id /\ dbItems[k].user_id = t.uid
       THEN [dbItems[k] EXCEPT !.title = trim(t.form.title),
                               !.description = trim(t.form.desc),
                               !.type = t.form.type,
                               !.area = trim(t.form.area),
                               !.status = "active"]
       ELSE dbItems[k]]

\* The edit without .eq('user_id', user.id).
UpdateItemFieldsAnyOwner(t) ==
    [k \in DOMAIN dbItems |->
       IF dbItems[k].id = t.item.id
       THEN [dbItems[k] EXCEPT !.title = trim(t.form.title),
                               !.description = trim(t.form.desc),
                               !.type = t.form.type,
                               !.area = trim(t.form.area)]
       ELSE dbItems[k]]

\* .from('items').update({ title, description, type, area })
\*   .eq('id', editingItem.id).eq('user_id', user.id) of the run t: the table
\* after it.  `area?.trim() || null`: a blank area is stored as NULL.
UpdateItemFields(t) ==
    [k \in DOMAIN dbItems |->
       IF dbItems[k].id = t.item.id /\ dbItems[k].user_id = t.uid
       THEN [dbItems[k] EXCEPT !.title = trim(t.form.title),
                               !.description = trim(t.form.desc),
                               !.type = t.form.type,
                               !.area = trim(t.form.area)]
       ELSE dbItems[k]]

\* ------------------------------------------------- session (page.tsx 111-132)
\* initAuth after getSession: a failed call is thrown and logged; with a session
\* the user is set and the profile's energy is requested.
initAuth_session(i, ok) ==
    /\ Sent(i, "initAuth", "getSession")
    /\ UNCHANGED dbVars
    /\ LET u == session
       IN IF ok /\ u # NoUser
          THEN Commit([Cur EXCEPT !.user = u, !.userNew = TRUE,
                                  !.tasks[i] = [NewTask("initAuth", "profile")
                                                  EXCEPT !.uid = u]])
          ELSE Commit([Cur EXCEPT !.tasks = RemoveAt(tasks, i)])

\* initAuth after the profile read: if (profile) setEnergy(profile.energy).
initAuth_profile(i, ok) ==
    /\ Sent(i, "initAuth", "profile")
    /\ UNCHANGED dbVars
    /\ LET e == profiles[tasks[i].uid]
       IN Commit([Cur EXCEPT !.energy = IF ok THEN e ELSE @,
                             !.tasks = RemoveAt(tasks, i)])

\* The session changed to user s or to none, in this tab or another one, and
\* every registered listener is called regardless of the view's cleanup.
onAuthStateChangeAfterUnsubscribe(s) ==
    /\ session' = s
    /\ UNCHANGED <<profiles, dbItems, dbConversations, dbMessages, now>>
    /\ Commit([Cur EXCEPT !.user = s, !.userNew = (s # NoUser)])

\* The session changed to user s or to none, in this tab or another one.  The
\* subscription's callback runs while the subscription is registered:
\* setUser(session?.user ?? null).
onAuthStateChange(s) ==
    /\ session' = s
    /\ UNCHANGED <<profiles, dbItems, dbConversations, dbMessages, now>>
    /\ IF subscription = "active"
       THEN Commit([Cur EXCEPT !.user = s, !.userNew = (s # NoUser)])
       ELSE UNCHANGED <<uiVars, tasks>>

\* The cleanup of the mount effect, run when the view is unmounted:
\* return () => subscription.unsubscribe().
unmount ==
    /\ subscription = "active"
    /\ subscription' = "unsubscribed"
    /\ UNCHANGED <<user, energy, items, currentCity, currentArea, activeModal,
                   selectedItem, isSubmitting, isLoading, toast, postForm,
                   authForm, editForm, editingItem, messages,
                   currentConversation, messageInput, isLoadingMessages,
                   userItems, isLoadingUserItems, reputation, dbVars, tasks>>

\* ------------------------------------------------ listings (page.tsx 135-160)
\* fetchItems after its await: the rows replace the displayed list, or the
\* failure is toasted; finally setIsLoading(false).
fetchItemsReply(n, ok, rows) ==
    IF ok
    THEN [n EXCEPT !.items = rows, !.isLoading = FALSE]
    ELSE [showToast(n, "fetch failed", "error") EXCEPT !.isLoading = FALSE]

\* A reply matched against the filter selected when it arrives.
ItemRowsOfCurrentFilter(i) == SelectItems(currentCity, currentArea)

\* The rows task i's fetchItems gets: the query has the city and the area
\* filter of the render the run was called from.
ItemRows(i) == SelectItems(tasks[i].city, tasks[i].area)

fetchItems_done(i, ok) ==
    /\ Sent(i, "fetchItems", "fetchItems")
    /\ UNCHANGED dbVars
    /\ Commit(fetchItemsReply([Cur EXCEPT !.tasks = RemoveAt(tasks, i)], ok, ItemRows(i)))

\* ------------------------------------------------- posting (page.tsx 163-215)
\* The gate with the wrong listing type: it stops offers, never seeks.
energyGateOnOffer(type, e) == type = "offer" /\ e < SeekMinEnergy

\* The gate that stops a seek only when the energy is used up.
energyGateAtZero(type, e) == type = "seek" /\ e <= 0

\* postForm.type === 'seek' && energy < 3
energyGate(type, e) == type = "seek" /\ e < SeekMinEnergy

\* handlePublish up to its first await.  The publish button is in the publish
\* modal and is disabled while isSubmitting.
handlePublish ==
    /\ activeModal = "publish" /\ ~isSubmitting
    /\ UNCHANGED dbVars
    /\ IF user = NoUser
       THEN Commit([showToast(Cur, "please sign in", "info") EXCEPT !.activeModal = "auth"])
       ELSE IF trim(postForm.title) = <<>>
       THEN Commit(showToast(Cur, "title is empty", "error"))
       ELSE IF energyGate(postForm.type, energy)
       THEN Commit(showToast(Cur, "not enough energy", "error"))
       ELSE Commit([Cur EXCEPT
                !.isSubmitting = TRUE,
                !.tasks = Append(@, [NewTask("handlePublish", "insert")
                                       EXCEPT !.uid = user, !.energy = energy,
                                              !.form = postForm, !.city = currentCity,
                                              !.area = currentArea])])

\* The insert with its error not looked at: the profile update is sent
\* whether the row was written or not.
handlePublish_insertedErrorIgnored(i, ok) ==
    /\ Sent(i, "handlePublish", "insert")
    /\ UNCHANGED <<session, profiles, dbConversations, dbMessages>>
    /\ IF ok
       THEN /\ Len(dbItems) < MaxItems
            /\ dbItems' = InsertItem(tasks[i])
            /\ now' = now + 1
       ELSE UNCHANGED <<dbItems, now>>
    /\ Commit([Cur EXCEPT !.tasks[i] = [tasks[i] EXCEPT !.pc = "update"]])

\* The insert and what follows it: a failure is thrown to the catch (toast,
\* finally); on success the profile update with energy + energyChange is sent.
handlePublish_inserted(i, ok) ==
    /\ Sent(i, "handlePublish", "insert")
    /\ UNCHANGED <<session, profiles, dbConversations, dbMessages>>
    /\ IF ok
       THEN /\ Len(dbItems) < MaxItems
            /\ dbItems' = InsertItem(tasks[i])
            /\ now' = now + 1
            /\ Commit([Cur EXCEPT !.tasks[i] = [tasks[i] EXCEPT !.pc = "update"]])
       ELSE /\ UNCHANGED <<dbItems, now>>
            /\ Commit([showToast(Cur, "insert failed", "error")
                         EXCEPT !.isSubmitting = FALSE, !.tasks = RemoveAt(tasks, i)])

\* The profile update, whose error is not looked at, and what follows it:
\* setEnergy(newEnergy), the draft is reset, the modal closed, fetchItems called.
handlePublish_settled(i, ok) ==
    /\ Sent(i, "handlePublish", "update")
    /\ profiles' = IF ok THEN UpdateProfile(tasks[i]) ELSE profiles
    /\ UNCHANGED <<session, dbItems, dbConversations, dbMessages, now>>
    /\ Commit([Cur EXCEPT !.energy = newEnergy(tasks[i]),
                          !.postForm = EmptyPostForm,
                          !.activeModal = NoModal,
                          !.isLoading = TRUE,
                          !.tasks[i] = [tasks[i] EXCEPT !.pc = "fetchItems"]])

\* After the awaited fetchItems: the success toast, finally setIsSubmitting(false).
handlePublish_fetched(i, ok) ==
    /\ Sent(i, "handlePublish", "fetchItems")
    /\ UNCHANGED dbVars
    /\ Commit([showToast(fetchItemsReply(Cur, ok, ItemRows(i)),
                         IF tasks[i].form.type = "offer" THEN "published, energy +5"
                                                         ELSE "published, energy -3",
                         "success")
                 EXCEPT !.isSubmitting = FALSE, !.tasks = RemoveAt(tasks, i)])

\* ------------------------------------------------------ the user's gestures
\* The navigation bar and the grid lie under the modal overlay: they can be
\* used only while no modal is open.
\* Publish button of the navigation bar: user ? 'publish' : 'auth'.
openPublish ==
    /\ activeModal = NoModal
    /\ UNCHANGED dbVars
    /\ Commit([Cur EXCEPT !.activeModal = IF user # NoUser THEN "publish" ELSE "auth"])

\* Profile button of the navigation bar.
openProfile ==
    /\ activeModal = NoModal
    /\ UNCHANGED dbVars
    /\ Commit([Cur EXCEPT !.activeModal = "profile"])

\* The overlay or the close button of a modal.
closeModal ==
    /\ activeModal # NoModal
    /\ UNCHANGED dbVars
    /\ Commit([Cur EXCEPT !.activeModal = NoModal])

\* A city of the city modal: setCurrentCity(city); setActiveModal(null).
chooseCity(c) ==
    /\ activeModal = "city"
    /\ UNCHANGED dbVars
    /\ Commit([Cur EXCEPT !.currentCity = c, !.activeModal = NoModal])

openCity ==
    /\ activeModal = NoModal
    /\ UNCHANGED dbVars
    /\ Commit([Cur EXCEPT !.activeModal = "city"])

\* The area filter input.
setCurrentArea(a) ==
    /\ activeModal = NoModal
    /\ a # currentArea
    /\ UNCHANGED dbVars
    /\ Commit([Cur EXCEPT !.currentArea = a])

\* The inputs of the publish modal.
setPostTitle(t) ==
    /\ activeModal = "publish"
    /\ t # postForm.title
    /\ UNCHANGED dbVars
    /\ Commit([Cur EXCEPT !.postForm.title = t])

setPostType(ty) ==
    /\ activeModal = "publish"
    /\ ty # postForm.type
    /\ UNCHANGED dbVars
    /\ Commit([Cur EXCEPT !.postForm.type = ty])

setPostArea(a) ==
    /\ activeModal = "publish"
    /\ a # postForm.area
    /\ UNCHANGED dbVars
    /\ Commit([Cur EXCEPT !.postForm.area = a])

\* A card of the grid, shown when the list is not loading.
selectItem(k) ==
    /\ activeModal = NoModal /\ ~isLoading
    /\ k \in DOMAIN items
    /\ UNCHANGED dbVars
    /\ Commit([Cur EXCEPT !.selectedItem = items[k], !.activeModal = "detail"])

\* The contact button of the detail modal.
openChat ==
    /\ activeModal = "detail" /\ selectedItem # NoItem
    /\ UNCHANGED dbVars
    /\ Commit([Cur EXCEPT !.activeModal = "chat"])

\* ------------------------------------------- profile (page.tsx 249-279, 324-345)
\* fetchUserItems after its await.
fetchUserItemsReply(n, ok, rows) ==
    IF ok
    THEN [n EXCEPT !.userItems = rows, !.isLoadingUserItems = FALSE]
    ELSE [showToast(n, "fetch of own listings failed", "error")
            EXCEPT !.isLoadingUserItems = FALSE]

\* The rows task i's fetchUserItems gets.
UserItemRows(i) == SelectUserItems(tasks[i].uid)

fetchUserItems_done(i, ok) ==
    /\ Sent(i, "fetchUserItems", "fetchUserItems")
    /\ UNCHANGED dbVars
    /\ Commit(fetchUserItemsReply([Cur EXCEPT !.tasks = RemoveAt(tasks, i)], ok,
                                  UserItemRows(i)))

\* handleSignOut up to its await; the button is in the profile modal.
handleSignOut ==
    /\ activeModal = "profile"
    /\ UNCHANGED dbVars
    /\ Commit([Cur EXCEPT !.tasks = Append(@, NewTask("handleSignOut", "signOut"))])

\* supabase.auth.signOut(), whose error is not looked at, and what follows it.
handleSignOut_done(i, ok) ==
    /\ Sent(i, "handleSignOut", "signOut")
    /\ session' = IF ok THEN NoUser ELSE session
    /\ UNCHANGED <<profiles, dbItems, dbConversations, dbMessages, now>>
    /\ Commit([showToast(Cur, "signed out", "info")
                 EXCEPT !.user = NoUser, !.energy = DefaultEnergy,
                        !.activeModal = NoModal, !.tasks = RemoveAt(tasks, i)])

\* handleDeleteItem(item) up to its await: the revoke button of a row of the
\* profile list (shown when it is not loading); confirm() may be declined.
handleDeleteItem(k, confirmed) ==
    /\ activeModal = "profile" /\ ~isLoadingUserItems
    /\ k \in DOMAIN userItems
    /\ UNCHANGED dbVars
    /\ IF user = NoUser \/ ~confirmed
       THEN Commit(Cur)
       ELSE Commit([Cur EXCEPT
                !.isSubmitting = TRUE,
                !.tasks = Append(@, [NewTask("handleDeleteItem", "update")
                                       EXCEPT !.uid = user, !.item = userItems[k],
                                              !.city = currentCity,
                                              !.area = currentArea])])

\* The update and what follows it: a failure is toasted; on success
\* fetchUserItems is called.
handleDeleteItem_updated(i, ok) ==
    /\ Sent(i, "handleDeleteItem", "update")
    /\ dbItems' = IF ok THEN UpdateItemStatus(tasks[i]) ELSE dbItems
    /\ UNCHANGED <<session, profiles, dbConversations, dbMessages, now>>
    /\ IF ok
       THEN Commit([showToast(Cur, "revoked", "success")
                      EXCEPT !.isLoadingUserItems = TRUE,
                             !.tasks[i] = [tasks[i] EXCEPT !.pc = "fetchUserItems"]])
       ELSE Commit([showToast(Cur, "operation failed", "error")
                      EXCEPT !.isSubmitting = FALSE, !.tasks = RemoveAt(tasks, i)])

\* After the awaited fetchUserItems: fetchItems is called.
handleDeleteItem_userFetched(i, ok) ==
    /\ Sent(i, "handleDeleteItem", "fetchUserItems")
    /\ UNCHANGED dbVars
    /\ Commit([fetchUserItemsReply(Cur, ok, UserItemRows(i))
                 EXCEPT !.isLoading = TRUE,
                        !.tasks[i] = [tasks[i] EXCEPT !.pc = "fetchItems"]])

\* After the awaited fetchItems: finally setIsSubmitting(false).
handleDeleteItem_fetched(i, ok) ==
    /\ Sent(i, "handleDeleteItem", "fetchItems")
    /\ UNCHANGED dbVars
    /\ Commit([fetchItemsReply(Cur, ok, ItemRows(i))
                 EXCEPT !.isSubmitting = FALSE, !.tasks = RemoveAt(tasks, i)])

\* ---------------------------------------------------- editing (page.tsx 281-322)
\* handleEditItem(item): the edit button of a row of the profile list, disabled
\* when the row is not active.
handleEditItem(k) ==
    /\ activeModal = "profile" /\ ~isLoadingUserItems
    /\ k \in DOMAIN userItems
    /\ userItems[k].status = "active"
    /\ UNCHANGED dbVars
    /\ Commit([Cur EXCEPT
          !.editingItem = userItems[k],
          !.editForm = [title |-> userItems[k].title, desc |-> userItems[k].description,
                        type |-> userItems[k].type, area |-> userItems[k].area],
          !.activeModal = "edit"])

\* The inputs of the edit modal.
setEditTitle(t) ==
    /\ activeModal = "edit"
    /\ t # editForm.title
    /\ UNCHANGED dbVars
    /\ Commit([Cur EXCEPT !.editForm.title = t])

setEditType(ty) ==
    /\ activeModal = "edit"
    /\ ty # editForm.type
    /\ UNCHANGED dbVars
    /\ Commit([Cur EXCEPT !.editForm.type = ty])

setEditArea(a) ==
    /\ activeModal = "edit"
    /\ a # editForm.area
    /\ UNCHANGED dbVars
    /\ Commit([Cur EXCEPT !.editForm.area = a])

\* handleUpdateItem up to its await; the save button of the edit modal is
\* disabled while isSubmitting.
handleUpdateItem ==
    /\ activeModal = "edit" /\ ~isSubmitting
    /\ UNCHANGED dbVars
    /\ IF editingItem = NoItem \/ user = NoUser \/ trim(editForm.title) = <<>>
       THEN Commit(showToast(Cur, "incomplete", "error"))
       ELSE Commit([Cur EXCEPT
                !.isSubmitting = TRUE,
                !.tasks = Append(@, [NewTask("handleUpdateItem", "update")
                                       EXCEPT !.uid = user, !.item = editingItem,
                                              !.form = editForm,
                                              !.city = currentCity,
                                              !.area = currentArea])])

\* The update and what follows it: a failure is toasted with the backend's
\* message; on success the profile modal is shown again, editingItem cleared
\* and fetchUserItems called.
handleUpdateItem_updated(i, ok) ==
    /\ Sent(i, "handleUpdateItem", "update")
    /\ dbItems' = IF ok THEN UpdateItemFields(tasks[i]) ELSE dbItems
    /\ UNCHANGED <<session, profiles, dbConversations, dbMessages, now>>
    /\ IF ok
       THEN Commit([showToast(Cur, "updated", "success")
                      EXCEPT !.activeModal = "profile",
                             !.editingItem = NoItem,
                             !.isLoadingUserItems = TRUE,
                             !.tasks[i] = [tasks[i] EXCEPT !.pc = "fetchUserItems"]])
       ELSE Commit([showToast(Cur, "update refused", "error")
                      EXCEPT !.isSubmitting = FALSE, !.tasks = RemoveAt(tasks, i)])

\* After the awaited fetchUserItems: fetchItems is called.
handleUpdateItem_userFetched(i, ok) ==
    /\ Sent(i, "handleUpdateItem", "fetchUserItems")
    /\ UNCHANGED dbVars
    /\ Commit([fetchUserItemsReply(Cur, ok, UserItemRows(i))
                 EXCEPT !.isLoading = TRUE,
                        !.tasks[i] = [tasks[i] EXCEPT !.pc = "fetchItems"]])

\* After the awaited fetchItems: finally setIsSubmitting(false).
handleUpdateItem_fetched(i, ok) ==
    /\ Sent(i, "handleUpdateItem", "fetchItems")
    /\ UNCHANGED dbVars
    /\ Commit([fetchItemsReply(Cur, ok, ItemRows(i))
                 EXCEPT !.isSubmitting = FALSE, !.tasks = RemoveAt(tasks, i)])

\* -------------------------------------------- authentication (page.tsx 218-247)
setAuthEmail(e) ==
    /\ activeModal = "auth"
    /\ e # authForm.email
    /\ UNCHANGED dbVars
    /\ Commit([Cur EXCEPT !.authForm.email = e])

setAuthPassword(pw) ==
    /\ activeModal = "auth"
    /\ pw # authForm.password
    /\ UNCHANGED dbVars
    /\ Commit([Cur EXCEPT !.authForm.password = pw])

toggleAuthMode ==
    /\ activeModal = "auth"
    /\ UNCHANGED dbVars
    /\ Commit([Cur EXCEPT !.authForm.isLogin = ~@])

\* handleAuth up to its await; the button is disabled while isSubmitting.
handleAuth ==
    /\ activeModal = "auth" /\ ~isSubmitting
    /\ UNCHANGED dbVars
    /\ IF trim(authForm.email) = <<>> \/ trim(authForm.password) = <<>>
       THEN Commit(showToast(Cur, "fill in all fields", "error"))
       ELSE Commit([Cur EXCEPT
                !.isSubmitting = TRUE,
                !.tasks = Append(@, [NewTask("handleAuth", "auth")
                                       EXCEPT !.auth = authForm])])

\* How the sign-in / sign-up call can end: accepted, or refused with the
\* message of the error.
AuthOutcomes == {"ok", "Invalid login credentials", "Email not confirmed"}

\* The sign-in / sign-up call without the finally block: isSubmitting is only
\* cleared on the success path.
handleAuth_doneNoFinally(i, outcome) ==
    /\ Sent(i, "handleAuth", "auth")
    /\ UNCHANGED <<profiles, dbItems, dbConversations, dbMessages, now>>
    /\ LET account == AccountOf(trim(tasks[i].auth.email))
       IN IF outcome = "ok"
          THEN /\ account # NoUser
               /\ session' = IF tasks[i].auth.isLogin THEN account ELSE session
               /\ Commit([showToast(Cur, IF tasks[i].auth.isLogin THEN "signed in"
                                                                   ELSE "signed up",
                                     "success")
                             EXCEPT !.user = account, !.userNew = TRUE,
                                    !.activeModal = NoModal, !.authForm = EmptyAuthForm,
                                    !.isSubmitting = FALSE, !.tasks = RemoveAt(tasks, i)])
          ELSE /\ UNCHANGED session
               /\ Commit([showToast(Cur, outcome, "error")
                             EXCEPT !.tasks = RemoveAt(tasks, i)])

\* signInWithPassword / signUp with the trimmed email and what follows it: the
\* backend accepts (data.user is the account's user; a sign-in also starts the
\* session) and setUser(data.user), the modal is closed, the form reset; or it
\* refuses and error.message is toasted.  finally setIsSubmitting(false).
handleAuth_done(i, outcome) ==
    /\ Sent(i, "handleAuth", "auth")
    /\ UNCHANGED <<profiles, dbItems, dbConversations, dbMessages, now>>
    /\ LET account == AccountOf(trim(tasks[i].auth.email))
       IN IF outcome = "ok"
          THEN /\ account # NoUser
               /\ session' = IF tasks[i].auth.isLogin THEN account ELSE session
               /\ Commit([showToast(Cur, IF tasks[i].auth.isLogin THEN "signed in"
                                                                   ELSE "signed up",
                                     "success")
                             EXCEPT !.user = account, !.userNew = TRUE,
                                    !.activeModal = NoModal, !.authForm = EmptyAuthForm,
                                    !.isSubmitting = FALSE, !.tasks = RemoveAt(tasks, i)])
          ELSE /\ UNCHANGED session
               /\ Commit([showToast(Cur, outcome, "error")
                             EXCEPT !.isSubmitting = FALSE, !.tasks = RemoveAt(tasks, i)])

\* ------------------------------------------------------ chat (page.tsx 347-479)
\* What the user can type as a message.
MessageTexts == {<<>>, <<" ">>, <<"h">>}

\* How the conversations insert can end: the row is written, or the backend
\* answers with the code PGRST116, with a message that holds 'not exist', or
\* with another error.
InsertOutcomes == {"ok", "PGRST116", "not exist", "denied"}

\* error.code === 'PGRST116' || error.message.includes('not exist')
isTableMissing(err) == err = "PGRST116" \/ err = "not exist"

\* The participants of c are uid and owner, in either order.
samePair(c, uid, owner) ==
    \/ (c.participant1_id = uid /\ c.participant2_id = owner)
    \/ (c.participant1_id = owner /\ c.participant2_id = uid)

\* existingConvs?.find(c => ...): the first row of the pair, or none.
findConversation(rows, uid, owner) ==
    LET hits == SelectSeq(rows, LAMBDA c : samePair(c, uid, owner))
    IN IF hits = <<>> THEN NoConversation ELSE Head(hits)

\* The conversations row with the two participants exchanged.
NewConversationRowSwapped(t) ==
    [id |-> Len(dbConversations) + 1, temp |-> FALSE, item_id |-> t.item.id,
     participant1_id |-> t.item.user_id, participant2_id |-> t.uid,
     created_at |-> now + 1, last_message_at |-> now + 1]

\* The row the conversations insert of run t writes.
NewConversationRow(t) ==
    [id |-> Len(dbConversations) + 1, temp |-> FALSE, item_id |-> t.item.id,
     participant1_id |-> t.uid, participant2_id |-> t.item.user_id,
     created_at |-> now + 1, last_message_at |-> now + 1]

\* The local conversation of the fallback: id `temp_${item.id}`.
TempConversation(t) ==
    [id |-> t.item.id, temp |-> TRUE, item_id |-> t.item.id,
     participant1_id |-> t.uid, participant2_id |-> t.item.user_id,
     created_at |-> now, last_message_at |-> 0]

\* initConversation after the lookup, whose error is not looked at: a row of
\* the pair is taken as the conversation, otherwise the insert is sent.
initConversation_lookup(i, ok) ==
    /\ Sent(i, "initConversation", "lookup")
    /\ UNCHANGED dbVars
    /\ LET t == tasks[i]
           existingConvs == IF ok THEN SelectConversations(t.item.id) ELSE <<>>
           existingConv == findConversation(existingConvs, t.uid, t.item.user_id)
       IN IF existingConv # NoConversation
          THEN Commit([Cur EXCEPT !.currentConversation = existingConv,
                                  !.tasks[i] = [t EXCEPT !.pc = "messages",
                                                         !.conv = existingConv]])
          ELSE Commit([Cur EXCEPT !.tasks[i] = [t EXCEPT !.pc = "insert"]])

\* initConversation after the insert: the new row is the conversation and its
\* messages are requested; a missing table gives the local conversation; any
\* other error is caught.
initConversation_inserted(i, outcome) ==
    /\ Sent(i, "initConversation", "insert")
    /\ UNCHANGED <<session, profiles, dbItems, dbMessages>>
    /\ LET t == tasks[i]
       IN IF outcome = "ok"
          THEN /\ Len(dbConversations) < MaxConvs
               /\ dbConversations' = Append(dbConversations, NewConversationRow(t))
               /\ now' = now + 1
               /\ Commit([Cur EXCEPT !.currentConversation = NewConversationRow(t),
                                     !.tasks[i] = [t EXCEPT !.pc = "messages",
                                                            !.conv = NewConversationRow(t)]])
          ELSE /\ UNCHANGED <<dbConversations, now>>
               /\ IF isTableMissing(outcome)
                  THEN Commit([showToast(Cur, "demo mode: local conversation", "info")
                                 EXCEPT !.currentConversation = TempConversation(t),
                                        !.isLoadingMessages = FALSE,
                                        !.tasks = RemoveAt(tasks, i)])
                  ELSE Commit([showToast(Cur, "conversation init failed", "error")
                                 EXCEPT !.isLoadingMessages = FALSE,
                                        !.tasks = RemoveAt(tasks, i)])

\* The messages query of initConversation, executed by the backend.
ExecSelectMessages(i) ==
    /\ Sent(i, "initConversation", "messages")
    /\ \/ Reply(i, [tasks[i] EXCEPT !.st = "ok",
                                    !.rows = SelectMessages(tasks[i].conv.id)])
       \/ Reply(i, Failed(tasks[i]))
    /\ UNCHANGED <<uiVars, dbVars>>

\* initConversation after the messages query, whose error is not looked at:
\* setMessages(msgs || []); finally setIsLoadingMessages(false).
initConversation_messages(i, ok) ==
    /\ Answered(i, "initConversation", "messages", ok)
    /\ UNCHANGED dbVars
    /\ LET msgs == IF ok THEN RowsOf(i, SelectMessages(tasks[i].conv.id)) ELSE <<>>
       IN Commit([Cur EXCEPT !.messages = msgs, !.isLoadingMessages = FALSE,
                             !.tasks = RemoveAt(tasks, i)])

\* The input of the chat modal.
setMessageInput(t) ==
    /\ activeModal = "chat"
    /\ t # messageInput
    /\ UNCHANGED dbVars
    /\ Commit([Cur EXCEPT !.messageInput = t])

\* currentConversation.participant1_id === user.id ? participant2_id : participant1_id
receiverId(conv, uid) ==
    IF conv.participant1_id = uid THEN conv.participant2_id ELSE conv.participant1_id

\* The local message with the input as typed, not trimmed.
TempMessageUntrimmed(conv, uid, text) ==
    [id |-> now, local |-> TRUE, conversation_id |-> conv.id,
     sender_id |-> uid, receiver_id |-> receiverId(conv, uid),
     content |-> text, item_id |-> 0, created_at |-> now]

\* The message a send on the local conversation appends.
TempMessage(conv, uid, text) ==
    [id |-> now, local |-> TRUE, conversation_id |-> conv.id,
     sender_id |-> uid, receiver_id |-> receiverId(conv, uid),
     content |-> trim(text), item_id |-> 0, created_at |-> now]

\* The message row written without its conversation.
NewMessageRowNoConversation(t) ==
    [id |-> Len(dbMessages) + 1, local |-> FALSE, conversation_id |-> 0,
     sender_id |-> t.uid, receiver_id |-> t.receiver,
     content |-> t.text, item_id |-> t.sel, created_at |-> now + 1]

\* The row the messages insert of run t writes.
NewMessageRow(t) ==
    [id |-> Len(dbMessages) + 1, local |-> FALSE, conversation_id |-> t.conv.id,
     sender_id |-> t.uid, receiver_id |-> t.receiver,
     content |-> t.text, item_id |-> t.sel, created_at |-> now + 1]

\* handleSendMessage up to its await: the send button, or Enter in the input
\* (neither acts while isSubmitting).  On the local conversation the message
\* is appended and the handler returns.
handleSendMessage ==
    /\ activeModal = "chat" /\ ~isSubmitting
    /\ UNCHANGED dbVars
    /\ IF user = NoUser \/ currentConversation = NoConversation
          \/ trim(messageInput) = <<>>
       THEN Commit(Cur)
       ELSE IF currentConversation.temp
       THEN /\ Len(messages) < MaxMsgs
            /\ Commit([Cur EXCEPT
                 !.messages = Append(@, TempMessage(currentConversation, user,
                                                    messageInput)),
                 !.messageInput = <<>>])
       ELSE Commit([Cur EXCEPT
                !.isSubmitting = TRUE,
                !.tasks = Append(@, [NewTask("handleSendMessage", "insert")
                                       EXCEPT !.uid = user,
                                              !.conv = currentConversation,
                                              !.receiver = receiverId(currentConversation, user),
                                              !.text = trim(messageInput),
                                              !.sel = selectedItem.id])])

\* The messages insert with its error not looked at: the message is appended
\* to the local list, the input cleared and the last_message_at update sent
\* whether the row was written or not.
handleSendMessage_insertedErrorIgnored(i, ok) ==
    /\ Sent(i, "handleSendMessage", "insert")
    /\ UNCHANGED <<session, profiles, dbItems, dbConversations>>
    /\ IF ok
       THEN /\ Len(dbMessages) < MaxMsgs
            /\ dbMessages' = Append(dbMessages, NewMessageRow(tasks[i]))
            /\ now' = now + 1
       ELSE UNCHANGED <<dbMessages, now>>
    /\ Commit([Cur EXCEPT !.messages = Append(@, NewMessageRow(tasks[i])),
                          !.messageInput = <<>>,
                          !.tasks[i] = [tasks[i] EXCEPT !.pc = "touch"]])

\* The messages insert and what follows it: the row is appended to the local
\* list, the input cleared and the conversation's last_message_at update sent;
\* a failure is toasted.
handleSendMessage_inserted(i, ok) ==
    /\ Sent(i, "handleSendMessage", "insert")
    /\ UNCHANGED <<session, profiles, dbItems, dbConversations>>
    /\ IF ok
       THEN /\ Len(dbMessages) < MaxMsgs
            /\ dbMessages' = Append(dbMessages, NewMessageRow(tasks[i]))
            /\ now' = now + 1
            /\ Commit([Cur EXCEPT !.messages = Append(@, NewMessageRow(tasks[i])),
                                  !.messageInput = <<>>,
                                  !.tasks[i] = [tasks[i] EXCEPT !.pc = "touch"]])
       ELSE /\ UNCHANGED <<dbMessages, now>>
            /\ Commit([showToast(Cur, "send failed", "error")
                         EXCEPT !.isSubmitting = FALSE, !.tasks = RemoveAt(tasks, i)])

\* .from('conversations').update({ last_message_at }).eq('id', currentConversation.id)
\* of the run t: the table after it.
TouchConversation(t) ==
    [k \in DOMAIN dbConversations |->
       IF dbConversations[k].id = t.conv.id
       THEN [dbConversations[k] EXCEPT !.last_message_at = now]
       ELSE dbConversations[k]]

\* The last_message_at update, whose error is not looked at; finally
\* setIsSubmitting(false).
handleSendMessage_touched(i, ok) ==
    /\ Sent(i, "handleSendMessage", "touch")
    /\ dbConversations' = IF ok THEN TouchConversation(tasks[i]) ELSE dbConversations
    /\ UNCHANGED <<session, profiles, dbItems, dbMessages, now>>
    /\ Commit([Cur EXCEPT !.isSubmitting = FALSE, !.tasks = RemoveAt(tasks, i)])

\* --------------------------------------- the tier variant (README.md 40-159)
\* getReputation with the lowest tier ending below 1.
getReputationBelowOne(score) ==
    IF score < Tier1Max
    THEN [title |-> "lost firefly", color |-> "gray", canSeek |-> FALSE]
    ELSE IF score <= Tier2Max
    THEN [title |-> "glimmer neighbour", color |-> "green", canSeek |-> TRUE]
    ELSE IF score <= Tier3Max
    THEN [title |-> "energy envoy", color |-> "blue", canSeek |-> TRUE]
    ELSE IF score <= Tier4Max
    THEN [title |-> "light of the community", color |-> "orange", canSeek |-> TRUE]
    ELSE [title |-> "eternal guardian", color |-> "purple", canSeek |-> TRUE]

\* const getReputation = (score: number) => ...
getReputation(score) ==
    IF score <= Tier1Max
    THEN [title |-> "lost firefly", color |-> "gray", canSeek |-> FALSE]
    ELSE IF score <= Tier2Max
    THEN [title |-> "glimmer neighbour", color |-> "green", canSeek |-> TRUE]
    ELSE IF score <= Tier3Max
    THEN [title |-> "energy envoy", color |-> "blue", canSeek |-> TRUE]
    ELSE IF score <= Tier4Max
    THEN [title |-> "light of the community", color |-> "orange", canSeek |-> TRUE]
    ELSE [title |-> "eternal guardian", color |-> "purple", canSeek |-> TRUE]

\* const reputation = useMemo(() => getReputation(energy), [energy]): the
\* render after energy changed computes it.
useMemoReputation(n) == [n EXCEPT !.reputation = getReputation(n.energy)]

\* fetchProfile up to its await.
fetchProfileStart(n, uid) ==
    [n EXCEPT !.tasks = Append(@, [NewTask("fetchProfile", "profile") EXCEPT !.uid = uid])]

\* init after getSession: with a session the user is set and fetchProfile
\* called (not awaited).
initTier_session(i, ok) ==
    /\ Sent(i, "initTier", "getSession")
    /\ UNCHANGED dbVars
    /\ LET u == session
           n == [Cur EXCEPT !.tasks = RemoveAt(tasks, i)]
       IN IF ok /\ u # NoUser
          THEN Commit(fetchProfileStart([n EXCEPT !.user = u, !.userNew = TRUE], u))
          ELSE Commit(n)

\* fetchProfile after its await: if (!error && data) setEnergy(data.energy_score).
fetchProfile_done(i, ok) ==
    /\ Sent(i, "fetchProfile", "profile")
    /\ UNCHANGED dbVars
    /\ LET e == profiles[tasks[i].uid]
       IN Commit(useMemoReputation([Cur EXCEPT !.energy = IF ok THEN e ELSE @,
                                               !.tasks = RemoveAt(tasks, i)]))

\* The subscription's callback of the tier variant: setUser, and fetchProfile
\* when there is a user.
onAuthStateChangeTier(s) ==
    /\ session' = s
    /\ UNCHANGED <<profiles, dbItems, dbConversations, dbMessages, now>>
    /\ IF subscription = "active"
       THEN LET n == [Cur EXCEPT !.user = s, !.userNew = (s # NoUser)]
            IN Commit(IF s # NoUser THEN fetchProfileStart(n, s) ELSE n)
       ELSE UNCHANGED <<uiVars, tasks>>

\* The gate with the wrong listing type.
tierGateOnOffer(type, rep) == type = "offer" /\ ~rep.canSeek

\* postForm.type === 'seek' && !reputation.canSeek
tierGate(type, rep) == type = "seek" /\ ~rep.canSeek

\* handlePublish of the tier variant up to its await: the gate comes before
\* the title check.
handlePublishTier ==
    /\ activeModal = "publish" /\ ~isSubmitting
    /\ UNCHANGED dbVars
    /\ IF user = NoUser
       THEN Commit([Cur EXCEPT !.activeModal = "auth"])
       ELSE IF tierGate(postForm.type, reputation)
       THEN Commit(showToast(Cur, "tier too low to seek", "error"))
       ELSE IF trim(postForm.title) = <<>>
       THEN Commit(showToast(Cur, "fill in the title", "error"))
       ELSE Commit([Cur EXCEPT
                !.isSubmitting = TRUE,
                !.tasks = Append(@, [NewTask("handlePublishTier", "insert")
                                       EXCEPT !.uid = user, !.form = postForm,
                                              !.city = currentCity,
                                              !.area = currentArea])])

\* The insert and what follows it: success toast, the draft reset, the modal
\* closed, fetchItems called (not awaited); a failure is toasted; finally
\* setIsSubmitting(false).  Energy is not touched.
handlePublishTier_inserted(i, ok) ==
    /\ Sent(i, "handlePublishTier", "insert")
    /\ UNCHANGED <<session, profiles, dbConversations, dbMessages>>
    /\ IF ok
       THEN /\ Len(dbItems) < MaxItems
            /\ dbItems' = InsertItem(tasks[i])
            /\ now' = now + 1
            /\ Commit(fetchItemsStart(
                        [showToast(Cur, "published", "success")
                           EXCEPT !.postForm = EmptyPostForm, !.activeModal = NoModal,
                                  !.isSubmitting = FALSE, !.tasks = RemoveAt(tasks, i)],
                        tasks[i].city, tasks[i].area))
       ELSE /\ UNCHANGED <<dbItems, now>>
            /\ Commit([showToast(Cur, "publish failed", "error")
                         EXCEPT !.isSubmitting = FALSE, !.tasks = RemoveAt(tasks, i)])

\* ------------------------------------------------------------ specifications
\* page.tsx has no reputation.
NoReputation == [title |-> "", color |-> "", canSeek |-> FALSE]

\* The React state of a page whose drafts, modal and chat are untouched.
PageState(u, e, rep, shown, loading, runs) ==
    /\ user = u
    /\ energy = e
    /\ reputation = rep
    /\ items = shown
    /\ isLoading = loading
    /\ tasks = runs
    /\ currentCity = "Shanghai"
    /\ currentArea = <<>>
    /\ activeModal = NoModal
    /\ selectedItem = NoItem
    /\ isSubmitting = FALSE
    /\ toast = NoToast
    /\ postForm = EmptyPostForm
    /\ authForm = EmptyAuthForm
    /\ editForm = EmptyPostForm
    /\ editingItem = NoItem
    /\ messages = <<>>
    /\ currentConversation = NoConversation
    /\ messageInput = <<>>
    /\ isLoadingMessages = FALSE
    /\ userItems = <<>>
    /\ isLoadingUserItems = FALSE
    /\ subscription = "active"

\* The page after its first render and its mount effects: initAuth and the
\* first fetchItems are in flight.
InitPage ==
    PageState(NoUser, DefaultEnergy, NoReputation, <<>>, TRUE,
              <<NewTask("initAuth", "getSession"),
                [NewTask("fetchItems", "fetchItems") EXCEPT !.city = "Shanghai"]>>)

\* The page of the signed-in user u once initAuth and the first fetchItems
\* have completed.
LoadedPage(u) ==
    PageState(u, profiles[u], NoReputation, SelectItems("Shanghai", <<>>), FALSE, <<>>)

\* A listing of the items table.
ItemRow(id, owner, type, city, area) ==
    [id |-> id, title |-> <<"a">>, description |-> <<>>, type |-> type,
     city |-> city, area |-> area, status |-> "active", user_id |-> owner,
     created_at |-> id]

\* The backend when the page is opened: the profiles rows, no conversation
\* yet, and the items table `rows`.
InitBackend(rows) ==
    /\ profiles = InitialProfiles
    /\ dbItems = rows
    /\ dbConversations = <<>>
    /\ dbMessages = <<>>
    /\ now = Len(rows)

\* Posting with energy (page.tsx): the page is opened with a session or
\* without one, on an empty items table; without a session, a sign-in (in this
\* tab or another one) can come at any time.
Init ==
    /\ session \in Users \cup {NoUser}
    /\ InitBackend(<<>>)
    /\ InitPage

Next ==
    \/ \E i \in TaskIds, ok \in BOOLEAN : initAuth_session(i, ok)
    \/ \E i \in TaskIds, ok \in BOOLEAN : initAuth_profile(i, ok)
    \/ \E i \in TaskIds, ok \in BOOLEAN : fetchItems_done(i, ok)
    \/ \E i \in TaskIds, ok \in BOOLEAN : handlePublish_inserted(i, ok)
    \/ \E i \in TaskIds, ok \in BOOLEAN : handlePublish_settled(i, ok)
    \/ \E i \in TaskIds, ok \in BOOLEAN : handlePublish_fetched(i, ok)
    \/ \E s \in Users : session = NoUser /\ onAuthStateChange(s)
    \/ openPublish
    \/ closeModal
    \/ \E t \in Titles : setPostTitle(t)
    \/ \E ty \in Types : setPostType(ty)
    \/ handlePublish

Spec == Init /\ [][Next]_vars

\* energyChange of a listing type: +5 for an offer, -3 for a seek.
energyChange(type) == IF type = "offer" THEN OfferGain ELSE -SeekCost

\* C1: in the energy-delta variant, a handlePublish call by a signed-in user
\* with type 'seek' while the local energy is below 3 starts no run (so no row
\* is ever inserted for it), and changes neither the items table nor the local
\* energy nor the stored profile energy, whatever the title.
C1_SeekBelowMinimumChangesNothing ==
    [][(handlePublish /\ user # NoUser /\ postForm.type = "seek"
          /\ energy < SeekMinEnergy)
       => (/\ dbItems' = dbItems
           /\ energy' = energy
           /\ profiles' = profiles
           /\ tasks' = tasks)]_vars

\* A seek with a title was refused for its energy: the toast of the refusal is
\* up, the user is signed in and the energy is below 3.
C1_Witness ==
    /\ toast.message = "not enough energy"
    /\ user # NoUser
    /\ trim(postForm.title) # <<>>
    /\ postForm.type = "seek"
    /\ energy < SeekMinEnergy

\* C3: in the energy-delta variant, a handlePublish run whose insert succeeded
\* changes the poster's stored profile energy by exactly +5 (offer) or -3
\* (seek), measured against the value stored immediately before.
C3_StoredEnergyChangesByDelta ==
    [][\A i \in TaskIds, ok \in BOOLEAN :
         handlePublish_settled(i, ok)
         => profiles'[tasks[i].uid]
              = profiles[tasks[i].uid] + energyChange(tasks[i].form.type)]_vars

\* Concurrent posting (page.tsx): the publish button is disabled while
\* isSubmitting, but the revoke button of the profile modal is not, and every
\* handler's finally clause sets isSubmitting to false: a revoke that the
\* backend refuses while a publish run is in flight enables the publish button
\* again, and a second handlePublish run starts beside the first.  The page
\* is the loaded page of a signed-in user; the drafts have the title "a".
InitRace ==
    /\ session = "u1"
    /\ InitBackend(<<>>)
    /\ LoadedPage("u1")

NextRace ==
    \/ \E i \in TaskIds, ok \in BOOLEAN : handlePublish_inserted(i, ok)
    \/ \E i \in TaskIds, ok \in BOOLEAN : handlePublish_settled(i, ok)
    \/ \E i \in TaskIds, ok \in BOOLEAN : handlePublish_fetched(i, ok)
    \/ \E i \in TaskIds, ok \in BOOLEAN : fetchUserItems_done(i, ok)
    \/ \E i \in TaskIds : handleDeleteItem_updated(i, FALSE)
    \/ openPublish
    \/ openProfile
    \/ closeModal
    \/ setPostTitle(<<"a">>)
    \/ \E ty \in Types : setPostType(ty)
    \/ handlePublish
    \/ \E k \in 1..MaxItems, c \in BOOLEAN : handleDeleteItem(k, c)

SpecRace == InitRace /\ [][NextRace]_vars

\* C5: in the energy-delta variant, from a non-negative local energy and
\* non-negative stored energies, neither the local energy nor any stored
\* profile energy is ever negative, whatever the sequence and the
\* interleaving of handlePublish runs.
C5_EnergyNeverNegative ==
    /\ energy >= 0
    /\ \A u \in Users : profiles[u] >= 0

\* Two handlePublish runs of seeks are in flight together, the first has
\* settled its energy, and the local energy is below the price of a seek.
C5_Witness ==
    /\ Len(tasks) = 2
    /\ \A i \in TaskIds : tasks[i].kind = "handlePublish" /\ tasks[i].form.type = "seek"
    /\ tasks[1].pc = "fetchItems"
    /\ energy < SeekCost
    /\ profiles[user] < SeekCost

\* The reputation policy (README.md): getReputation on every integer score
\* from -MaxScore to MaxScore, as the render computes it from the energy.
InitRep ==
    /\ session = NoUser
    /\ InitBackend(<<>>)
    /\ \E score \in -MaxScore..MaxScore :
         PageState(NoUser, score, NoReputation, <<>>, TRUE, <<>>)

renderReputation ==
    /\ reputation # getReputation(energy)
    /\ UNCHANGED dbVars
    /\ Commit(useMemoReputation(Cur))

NextRep == renderReputation

SpecRep == InitRep /\ [][NextRep]_vars

\* The tier of a score, by the threshold table: 1 is the lowest.
tierOf(score) ==
    IF score <= Tier1Max THEN 1
    ELSE IF score <= Tier2Max THEN 2
    ELSE IF score <= Tier3Max THEN 3
    ELSE IF score <= Tier4Max THEN 4 ELSE 5

\* The descriptors getReputation can return.
TierDescriptors ==
    [title : {"lost firefly", "glimmer neighbour", "energy envoy",
              "light of the community", "eternal guardian"},
     color : {"gray", "green", "blue", "orange", "purple"},
     canSeek : BOOLEAN]

\* C4: getReputation returns a descriptor for every integer score (it is
\* total), with canSeek false for every score <= 1 and true for every score
\* >= 2; canSeek is false in the lowest tier and in no other.
C4_CanSeekFromTwo ==
    reputation # NoReputation
    => /\ reputation \in TierDescriptors
       /\ (energy <= 1 => ~reputation.canSeek)
       /\ (energy >= 2 => reputation.canSeek)
       /\ (~reputation.canSeek <=> tierOf(energy) = 1)
       /\ (reputation.title = "lost firefly" <=> tierOf(energy) = 1)

\* The reputation of score 1 has been computed: the last score that may not
\* seek.
C4_Witness ==
    /\ energy = 1
    /\ reputation # NoReputation
    /\ ~reputation.canSeek

\* Posting with tiers (README.md): the page is opened with a session or
\* without one; without a session, a sign-in can come at any time.
InitTier ==
    /\ session \in Users \cup {NoUser}
    /\ InitBackend(<<>>)
    /\ PageState(NoUser, TierDefaultEnergy, getReputation(TierDefaultEnergy), <<>>, TRUE,
                 <<NewTask("initTier", "getSession"),
                   [NewTask("fetchItems", "fetchItems") EXCEPT !.city = "Shanghai"]>>)

NextTier ==
    \/ \E i \in TaskIds, ok \in BOOLEAN : initTier_session(i, ok)
    \/ \E i \in TaskIds, ok \in BOOLEAN : fetchProfile_done(i, ok)
    \/ \E i \in TaskIds, ok \in BOOLEAN : fetchItems_done(i, ok)
    \/ \E i \in TaskIds, ok \in BOOLEAN : handlePublishTier_inserted(i, ok)
    \/ \E s \in Users : session = NoUser /\ onAuthStateChangeTier(s)
    \/ openPublish
    \/ closeModal
    \/ \E t \in Titles : setPostTitle(t)
    \/ \E ty \in Types : setPostType(ty)
    \/ handlePublishTier

SpecTier == InitTier /\ [][NextTier]_vars

\* C2: in the tier variant, a handlePublish call by a signed-in user with
\* type 'seek' while getReputation(energy).canSeek is false starts no run (so
\* no row is ever inserted for it) and changes neither the items table nor the
\* energy, local or stored, whatever the title, empty or not.
C2_SeekWithoutTierChangesNothing ==
    [][(handlePublishTier /\ user # NoUser /\ postForm.type = "seek"
          /\ ~getReputation(energy).canSeek)
       => (/\ dbItems' = dbItems
           /\ energy' = energy
           /\ profiles' = profiles
           /\ tasks' = tasks)]_vars

\* A seek with an empty title was refused for its tier: the toast of the
\* refusal is up and the energy is in the lowest tier.
C2_Witness ==
    /\ toast.message = "tier too low to seek"
    /\ user # NoUser
    /\ postForm.title = <<>>
    /\ postForm.type = "seek"
    /\ ~getReputation(energy).canSeek

\* Revoking (page.tsx): the loaded page of u1, who owns the two listings of
\* the items table; the profile modal with revoke, and the area filter of the
\* grid.
InitItems ==
    /\ session = "u1"
    /\ InitBackend(<<ItemRow(1, "u1", "offer", "Shanghai", <<"A", "b">>),
                     ItemRow(2, "u1", "seek", "Shanghai", <<>>)>>)
    /\ LoadedPage("u1")

NextItems ==
    \/ \E i \in TaskIds, ok \in BOOLEAN : fetchItems_done(i, ok)
    \/ \E i \in TaskIds, ok \in BOOLEAN : fetchUserItems_done(i, ok)
    \/ \E i \in TaskIds, ok \in BOOLEAN : handleDeleteItem_updated(i, ok)
    \/ \E i \in TaskIds, ok \in BOOLEAN : handleDeleteItem_userFetched(i, ok)
    \/ \E i \in TaskIds, ok \in BOOLEAN : handleDeleteItem_fetched(i, ok)
    \/ openProfile
    \/ closeModal
    \/ \E a \in AreaFilters : setCurrentArea(a)
    \/ \E k \in 1..MaxItems, c \in BOOLEAN : handleDeleteItem(k, c)

SpecItems == InitItems /\ [][NextItems]_vars

\* The rows of a query result.
Range(rows) == {rows[k] : k \in DOMAIN rows}

\* C10: once handleDeleteItem's update has succeeded on a listing of the
\* caller, the row is still in the items table with status 'inactive' and
\* stays so; the owner's query of fetchUserItems returns it; and no fetchItems
\* query executed from then on, for the row's city and any area filter,
\* returns it, so no list fetched from then on shows it.
C10_RevokedRowKeptAndHidden ==
    [][/\ \A i \in TaskIds :
            (handleDeleteItem_updated(i, TRUE) /\ tasks[i].item.user_id = tasks[i].uid)
            => \E k \in DOMAIN dbItems' :
                 /\ dbItems'[k].id = tasks[i].item.id
                 /\ dbItems'[k].status = "inactive"
       /\ \A k \in DOMAIN dbItems :
            dbItems[k].status = "inactive"
            => /\ k \in DOMAIN dbItems'
               /\ dbItems'[k].id = dbItems[k].id
               /\ dbItems'[k].status = "inactive"
       /\ \A k \in DOMAIN dbItems', u \in Users, c \in Cities :
            (/\ dbItems'[k].status = "inactive"
             /\ dbItems'[k].user_id = u
             /\ dbItems'[k].city = c)
            => /\ dbItems'[k] \in Range(SelectUserItems(u)')
               /\ \A a \in AreaFilters :
                    dbItems'[k] \notin Range(SelectItems(c, a)')
       /\ \A i \in TaskIds :
            (fetchItems_done(i, TRUE) \/ handleDeleteItem_fetched(i, TRUE))
            => \A r \in Range(items') : r.status = "active" /\ r \in Range(dbItems')]_vars

\* A revoke has run to its end: the row is inactive in the table and in the
\* owner's list, and the grid, fetched after it, shows the other listing only.
C10_Witness ==
    /\ tasks = <<>>
    /\ ~isSubmitting
    /\ \E k \in DOMAIN dbItems :
         /\ dbItems[k].status = "inactive"
         /\ dbItems[k] \in Range(userItems)
         /\ \A r \in Range(items) : r.id # dbItems[k].id
    /\ items # <<>>
    /\ items = SelectItems(currentCity, currentArea)

\* Opening a chat (page.tsx): the loaded page of u1; u2 owns listing 1 and u1
\* listing 2; no conversation yet.  The session can change to the other
\* account, or end, at any time (in this tab or another one).
InitChat ==
    /\ session = "u1"
    /\ InitBackend(<<ItemRow(1, "u2", "offer", "Shanghai", <<>>),
                     ItemRow(2, "u1", "offer", "Shanghai", <<>>)>>)
    /\ LoadedPage("u1")

NextChat ==
    \/ \E i \in TaskIds, ok \in BOOLEAN : initConversation_lookup(i, ok)
    \/ \E i \in TaskIds, outcome \in InsertOutcomes : initConversation_inserted(i, outcome)
    \/ \E i \in TaskIds, ok \in BOOLEAN : initConversation_messages(i, ok)
    \/ \E s \in Users \cup {NoUser} : onAuthStateChange(s)
    \/ \E k \in 1..MaxItems : selectItem(k)
    \/ openChat
    \/ closeModal

SpecChat == InitChat /\ [][NextChat]_vars

\* Sending (page.tsx): the loaded page of u1 and the listing of u2, with
\* their conversation and a first message of u1 in the tables.  The messages
\* query is executed by the backend at any moment before its reply is handled.
InitSend ==
    /\ session = "u1"
    /\ profiles = InitialProfiles
    /\ dbItems = <<ItemRow(1, "u2", "offer", "Shanghai", <<>>)>>
    /\ dbConversations =
         <<[id |-> 1, temp |-> FALSE, item_id |-> 1, participant1_id |-> "u1",
            participant2_id |-> "u2", created_at |-> 2, last_message_at |-> 3]>>
    /\ dbMessages =
         <<[id |-> 1, local |-> FALSE, conversation_id |-> 1, sender_id |-> "u1",
            receiver_id |-> "u2", content |-> <<"h">>, item_id |-> 1,
            created_at |-> 3]>>
    /\ now = 3
    /\ LoadedPage("u1")

NextSend ==
    \/ \E i \in TaskIds, ok \in BOOLEAN : initConversation_lookup(i, ok)
    \/ \E i \in TaskIds, outcome \in InsertOutcomes : initConversation_inserted(i, outcome)
    \/ \E i \in TaskIds : ExecSelectMessages(i)
    \/ \E i \in TaskIds, ok \in BOOLEAN : initConversation_messages(i, ok)
    \/ \E i \in TaskIds, ok \in BOOLEAN : handleSendMessage_inserted(i, ok)
    \/ \E i \in TaskIds, ok \in BOOLEAN : handleSendMessage_touched(i, ok)
    \/ \E k \in 1..MaxItems : selectItem(k)
    \/ openChat
    \/ closeModal
    \/ \E t \in MessageTexts : setMessageInput(t)
    \/ handleSendMessage

SpecSend == InitSend /\ [][NextSend]_vars

\* The rows are in ascending order of created_at.
IsAscending(rows) ==
    \A k \in 1..(Len(rows) - 1) : rows[k].created_at <= rows[k + 1].created_at

\* C6: initConversation called by a signed-in user on a listing of their own
\* (the call that toasts the refusal) sends no query for conversations or
\* messages, writes no row, and leaves currentConversation null and messages
\* empty.
C6_OwnListingLeavesNoConversation ==
    [][toast'.message = "cannot chat with yourself"
       => /\ dbConversations' = dbConversations
          /\ dbMessages' = dbMessages
          /\ \A i \in DOMAIN tasks' :
               tasks'[i].kind = "initConversation"
               => \E j \in DOMAIN tasks : tasks[j] = tasks'[i]
          /\ currentConversation' = NoConversation
          /\ messages' = <<>>]_vars

\* C7: when the conversations table holds a row of the listing with the
\* participants {current user, listing owner} in either order, a run of
\* initConversation for the listing takes a row of that pair as
\* currentConversation and sends no insert.
C7_ExistingConversationReused ==
    [][\A i \in TaskIds, ok \in BOOLEAN :
         (/\ initConversation_lookup(i, ok)
          /\ \E k \in DOMAIN dbConversations :
               /\ dbConversations[k].item_id = tasks[i].item.id
               /\ samePair(dbConversations[k], tasks[i].uid, tasks[i].item.user_id))
         => /\ tasks'[i].pc = "messages"
            /\ currentConversation' \in Range(dbConversations)
            /\ currentConversation'.item_id = tasks[i].item.id
            /\ samePair(currentConversation', tasks[i].uid, tasks[i].item.user_id)]_vars

\* C8: the conversations table never holds two rows of the same listing with
\* the same two participants, in either order.
C8_OneConversationPerPair ==
    \A a, b \in DOMAIN dbConversations :
       (/\ a # b
        /\ dbConversations[a].item_id = dbConversations[b].item_id)
       => ~samePair(dbConversations[a], dbConversations[b].participant1_id,
                    dbConversations[b].participant2_id)

\* C9: when initConversation completes on a persisted conversation, the local
\* message list is the rows of that conversation in ascending order of
\* created_at, and the list is still ascending after each successful send.
C9_HistoryCompleteAndAscending ==
    [][/\ \A i \in TaskIds, ok \in BOOLEAN :
            initConversation_messages(i, ok)
            => /\ messages' = SelectMessages(tasks[i].conv.id)
               /\ IsAscending(messages')
       /\ \A i \in TaskIds :
            handleSendMessage_inserted(i, TRUE) => IsAscending(messages')]_vars

\* Every write of the page (page.tsx): the loaded page of u1 and one listing
\* of u2.  u1 posts a listing, edits it and revokes it from the profile modal,
\* opens the chat of u2's listing and sends messages; u1 acts when no request
\* is in flight.  Every write and the conversations lookup can fail; the
\* other reads succeed.
InitTables ==
    /\ session = "u1"
    /\ InitBackend(<<ItemRow(1, "u2", "offer", "Shanghai", <<>>)>>)
    /\ LoadedPage("u1")

NextTables ==
    \/ \E i \in TaskIds : fetchUserItems_done(i, TRUE)
    \/ \E i \in TaskIds, ok \in BOOLEAN : handlePublish_inserted(i, ok)
    \/ \E i \in TaskIds, ok \in BOOLEAN : handlePublish_settled(i, ok)
    \/ \E i \in TaskIds : handlePublish_fetched(i, TRUE)
    \/ \E i \in TaskIds, ok \in BOOLEAN : handleUpdateItem_updated(i, ok)
    \/ \E i \in TaskIds : handleUpdateItem_userFetched(i, TRUE)
    \/ \E i \in TaskIds : handleUpdateItem_fetched(i, TRUE)
    \/ \E i \in TaskIds, ok \in BOOLEAN : handleDeleteItem_updated(i, ok)
    \/ \E i \in TaskIds : handleDeleteItem_userFetched(i, TRUE)
    \/ \E i \in TaskIds : handleDeleteItem_fetched(i, TRUE)
    \/ \E i \in TaskIds, ok \in BOOLEAN : initConversation_lookup(i, ok)
    \/ \E i \in TaskIds, outcome \in InsertOutcomes : initConversation_inserted(i, outcome)
    \/ \E i \in TaskIds : initConversation_messages(i, TRUE)
    \/ \E i \in TaskIds, ok \in BOOLEAN : handleSendMessage_inserted(i, ok)
    \/ \E i \in TaskIds, ok \in BOOLEAN : handleSendMessage_touched(i, ok)
    \/ tasks = <<>> /\ openPublish
    \/ tasks = <<>> /\ openProfile
    \/ tasks = <<>> /\ closeModal
    \/ tasks = <<>> /\ setPostTitle(<<"a">>)
    \/ tasks = <<>> /\ handlePublish
    \/ \E k \in 1..MaxItems : tasks = <<>> /\ handleEditItem(k)
    \/ tasks = <<>> /\ setEditTitle(<<" ">>)
    \/ tasks = <<>> /\ handleUpdateItem
    \/ \E k \in 1..MaxItems : tasks = <<>> /\ handleDeleteItem(k, TRUE)
    \/ \E k \in 1..MaxItems : tasks = <<>> /\ selectItem(k)
    \/ tasks = <<>> /\ openChat
    \/ tasks = <<>> /\ setMessageInput(<<"h">>)
    \/ tasks = <<>> /\ handleSendMessage

SpecTables == InitTables /\ [][NextTables]_vars

\* The ids of the rows of a table.
Ids(rows) == {rows[k].id : k \in DOMAIN rows}

\* C11: no step of the page removes a row of items, conversations or
\* messages: the ids of each table after a step include its ids before it.
C11_RowsNeverRemoved ==
    [][/\ Ids(dbItems) \subseteq Ids(dbItems')
       /\ Ids(dbConversations) \subseteq Ids(dbConversations')
       /\ Ids(dbMessages) \subseteq Ids(dbMessages')]_vars

\* A listing has been revoked and a conversation and a message written: all
\* the rows ever written are in their tables.
C11_Witness ==
    /\ \E k \in DOMAIN dbItems : dbItems[k].status = "inactive"
    /\ Ids(dbItems) = 1..MaxItems
    /\ dbConversations # <<>>
    /\ dbMessages # <<>>

\* The page of the tier variant (README.md) for the signed-in user u once
\* init, fetchProfile and the first fetchItems have completed.
LoadedTierPage(u) ==
    PageState(u, profiles[u], getReputation(profiles[u]),
              SelectItems("Shanghai", <<>>), FALSE, <<>>)

\* Posting in a chosen city (page.tsx and README.md): the loaded page of u1
\* in either variant, on an empty items table.  The tier variant is the page
\* that has a reputation; each variant posts with its own handlePublish.
InitPost ==
    /\ session = "u1"
    /\ InitBackend(<<>>)
    /\ (LoadedPage("u1") \/ LoadedTierPage("u1"))

NextPost ==
    \/ \E i \in TaskIds, ok \in BOOLEAN : fetchItems_done(i, ok)
    \/ \E i \in TaskIds, ok \in BOOLEAN : handlePublish_inserted(i, ok)
    \/ \E i \in TaskIds, ok \in BOOLEAN : handlePublish_settled(i, ok)
    \/ \E i \in TaskIds, ok \in BOOLEAN : handlePublish_fetched(i, ok)
    \/ \E i \in TaskIds, ok \in BOOLEAN : handlePublishTier_inserted(i, ok)
    \/ openPublish
    \/ openCity
    \/ \E c \in Cities : chooseCity(c)
    \/ closeModal
    \/ setPostTitle(<<"a">>)
    \/ \E ty \in Types : setPostType(ty)
    \/ reputation = NoReputation /\ handlePublish
    \/ reputation # NoReputation /\ handlePublishTier

SpecPost == InitPost /\ [][NextPost]_vars

\* C12: a handlePublish call that starts its insert was made by a signed-in
\* user with a non-blank title and carries the city selected at the call;
\* when its insert succeeds the items table gains one row, with status
\* 'active', that city and the poster as user_id; and every fetchItems that
\* then succeeds for a city with an empty area filter shows every row posted
\* in that city (no listing is revoked here).
C12_PostedListingIsFetched ==
    [][/\ (handlePublish \/ handlePublishTier)
          => \A j \in DOMAIN tasks' :
               (j > Len(tasks) /\ tasks'[j].kind \in {"handlePublish", "handlePublishTier"})
               => /\ user # NoUser
                  /\ trim(postForm.title) # <<>>
                  /\ tasks'[j].uid = user
                  /\ tasks'[j].city = currentCity
       /\ \A i \in TaskIds :
            (handlePublish_inserted(i, TRUE) \/ handlePublishTier_inserted(i, TRUE))
            => /\ Len(dbItems') = Len(dbItems) + 1
               /\ SubSeq(dbItems', 1, Len(dbItems)) = dbItems
               /\ dbItems'[Len(dbItems')].id \notin Ids(dbItems)
               /\ dbItems'[Len(dbItems')].status = "active"
               /\ dbItems'[Len(dbItems')].city = tasks[i].city
               /\ dbItems'[Len(dbItems')].user_id = tasks[i].uid
       /\ \A i \in TaskIds :
            ((fetchItems_done(i, TRUE) \/ handlePublish_fetched(i, TRUE))
             /\ tasks[i].area = <<>>)
            => \A k \in DOMAIN dbItems :
                 dbItems[k].city = tasks[i].city => dbItems[k] \in Range(items')]_vars

\* The post of u1 made after choosing Beijing has completed and the list
\* shows it.
C12_Witness ==
    /\ toast.message = "published, energy +5"
    /\ \E k \in DOMAIN items :
         /\ items[k].city = "Beijing"
         /\ items[k].user_id = "u1"
         /\ items[k].status = "active"

\* The guards of posting (page.tsx and README.md): the loaded page of a
\* signed-in user in either variant; the session can end at any time (in
\* another tab, or by expiry), publish modal open or not.
InitGuard ==
    /\ session \in Users
    /\ InitBackend(<<>>)
    /\ (LoadedPage(session) \/ LoadedTierPage(session))

NextGuard ==
    \/ \E i \in TaskIds, ok \in BOOLEAN : fetchItems_done(i, ok)
    \/ \E i \in TaskIds, ok \in BOOLEAN : handlePublish_inserted(i, ok)
    \/ \E i \in TaskIds, ok \in BOOLEAN : handlePublish_settled(i, ok)
    \/ \E i \in TaskIds, ok \in BOOLEAN : handlePublish_fetched(i, ok)
    \/ \E i \in TaskIds, ok \in BOOLEAN : handlePublishTier_inserted(i, ok)
    \/ reputation = NoReputation /\ session # NoUser /\ onAuthStateChange(NoUser)
    \/ reputation # NoReputation /\ session # NoUser /\ onAuthStateChangeTier(NoUser)
    \/ openPublish
    \/ closeModal
    \/ \E t \in Titles : setPostTitle(t)
    \/ \E ty \in Types : setPostType(ty)
    \/ reputation = NoReputation /\ handlePublish
    \/ reputation # NoReputation /\ handlePublishTier

SpecGuard == InitGuard /\ [][NextGuard]_vars

\* C13: in both variants, handlePublish with no signed-in user opens the auth
\* modal, and handlePublish with a title that is empty or all blanks leaves
\* the local energy as it is; in both cases no run is started (no remote call
\* is sent) and no table changes.
C13_GuardsWriteNothing ==
    [][(handlePublish \/ handlePublishTier)
       => /\ user = NoUser
             => /\ activeModal' = "auth"
                /\ tasks' = tasks
                /\ UNCHANGED dbVars
          /\ (\A k \in DOMAIN postForm.title : postForm.title[k] = " ")
             => /\ energy' = energy
                /\ tasks' = tasks
                /\ UNCHANGED dbVars]_vars

\* The session ended while the publish modal was open, and the publish
\* button was pressed: the sign-in prompt of page.tsx is shown.
C13_Witness ==
    /\ user = NoUser
    /\ activeModal = "auth"
    /\ toast.message = "please sign in"
    /\ postForm.title = <<" ">>

\* Editing and revoking (page.tsx): the loaded page of u1; u1 and u2 own one
\* listing each.  The session can change to the other account at any time
\* (a sign-in in another tab), profile or edit modal open or not; the user
\* opens the edit modal and saves at any time, and otherwise acts when no
\* request is in flight; the list refreshes that follow a write succeed.
InitOwner ==
    /\ session = "u1"
    /\ InitBackend(<<ItemRow(1, "u1", "offer", "Shanghai", <<>>),
                     ItemRow(2, "u2", "offer", "Shanghai", <<>>)>>)
    /\ LoadedPage("u1")

NextOwner ==
    \/ \E i \in TaskIds, ok \in BOOLEAN : fetchUserItems_done(i, ok)
    \/ \E i \in TaskIds, ok \in BOOLEAN : handleUpdateItem_updated(i, ok)
    \/ \E i \in TaskIds : handleUpdateItem_userFetched(i, TRUE)
    \/ \E i \in TaskIds : handleUpdateItem_fetched(i, TRUE)
    \/ \E i \in TaskIds, ok \in BOOLEAN : handleDeleteItem_updated(i, ok)
    \/ \E i \in TaskIds : handleDeleteItem_userFetched(i, TRUE)
    \/ \E i \in TaskIds : handleDeleteItem_fetched(i, TRUE)
    \/ \E s \in Users : s # session /\ onAuthStateChange(s)
    \/ tasks = <<>> /\ openProfile
    \/ tasks = <<>> /\ closeModal
    \/ \E k \in 1..MaxItems : handleEditItem(k)
    \/ \E ty \in Types : tasks = <<>> /\ setEditType(ty)
    \/ handleUpdateItem
    \/ \E k \in 1..MaxItems : tasks = <<>> /\ handleDeleteItem(k, TRUE)

SpecOwner == InitOwner /\ [][NextOwner]_vars

\* C14: the update of handleUpdateItem and of handleDeleteItem leaves every
\* listing of another user than the caller as it is, and the table keeps its
\* rows; a call on a listing that is not the caller's changes no row at all.
C14_OnlyOwnListingsChange ==
    [][\A i \in TaskIds, ok \in BOOLEAN :
         (handleUpdateItem_updated(i, ok) \/ handleDeleteItem_updated(i, ok))
         => /\ DOMAIN dbItems' = DOMAIN dbItems
            /\ \A k \in DOMAIN dbItems :
                 dbItems[k].user_id # tasks[i].uid => dbItems'[k] = dbItems[k]
            /\ tasks[i].item.user_id # tasks[i].uid => dbItems' = dbItems]_vars

\* The edit of u1's listing saved by u2 (the session changed while the edit
\* modal was open) has been answered without an error, and the row is as it
\* was.
C14_Witness ==
    \E i \in TaskIds :
       /\ tasks[i].kind = "handleUpdateItem"
       /\ tasks[i].pc = "fetchUserItems"
       /\ tasks[i].item.user_id # tasks[i].uid
       /\ tasks[i].form.type # tasks[i].item.type
       /\ \E k \in DOMAIN dbItems : dbItems[k] = tasks[i].item

\* Concurrent posting where every remote call of handlePublish succeeds
\* (page.tsx): as in SpecRace a refused revoke sets isSubmitting to false
\* while a publish run is in flight, and a second run starts beside it.
InitLost ==
    /\ session = "u1"
    /\ InitBackend(<<>>)
    /\ LoadedPage("u1")

NextLost ==
    \/ \E i \in TaskIds : handlePublish_inserted(i, TRUE)
    \/ \E i \in TaskIds : handlePublish_settled(i, TRUE)
    \/ \E i \in TaskIds : handlePublish_fetched(i, TRUE)
    \/ \E i \in TaskIds : fetchUserItems_done(i, TRUE)
    \/ \E i \in TaskIds : handleDeleteItem_updated(i, FALSE)
    \/ openPublish
    \/ openProfile
    \/ closeModal
    \/ setPostTitle(<<"a">>)
    \/ \E ty \in Types : setPostType(ty)
    \/ handlePublish
    \/ \E k \in 1..MaxItems : handleDeleteItem(k, TRUE)

SpecLost == InitLost /\ [][NextLost]_vars

\* C15: the profile update of a handlePublish run stores the energy the run
\* read when it started plus its own delta; when another run of the session
\* that read the same energy has inserted and settled before, the stored
\* energy after both reflects the delta of the later run only.
C15_LaterRunOverwrites ==
    [][\A i \in TaskIds :
         handlePublish_settled(i, TRUE)
         => /\ profiles'[tasks[i].uid]
                 = tasks[i].energy + energyChange(tasks[i].form.type)
            /\ \A j \in TaskIds \ {i} :
                 (/\ tasks[j].kind = "handlePublish"
                  /\ tasks[j].pc = "fetchItems"
                  /\ tasks[j].uid = tasks[i].uid
                  /\ tasks[j].energy = tasks[i].energy)
                 => profiles'[tasks[i].uid]
                      # tasks[i].energy + energyChange(tasks[j].form.type)
                                        + energyChange(tasks[i].form.type)]_vars

\* Two handlePublish runs of u1 read the energy the page was loaded with,
\* both inserted their listing and both profile updates succeeded: two rows
\* are stored and the stored energy is the starting energy plus one delta.
C15_Witness ==
    /\ Len(tasks) = 2
    /\ \A i \in TaskIds :
         /\ tasks[i].kind = "handlePublish"
         /\ tasks[i].pc = "fetchItems"
         /\ tasks[i].uid = "u1"
         /\ tasks[i].energy = InitialProfiles["u1"]
    /\ Len(dbItems) = 2
    /\ \E i \in TaskIds :
         profiles["u1"] = InitialProfiles["u1"] + energyChange(tasks[i].form.type)
    /\ profiles["u1"] # InitialProfiles["u1"] + energyChange(tasks[1].form.type)
                                               + energyChange(tasks[2].form.type)

\* Filtering the grid (page.tsx 135-160, README.md 100-112): the loaded page
\* of u1 over two listings in Shanghai and one in Beijing; the user changes
\* the city and the area filter (a text, or the character "_"), every change
\* sends a fetchItems query, and every query succeeds.  The replies arrive in
\* any order.
InitFilter ==
    /\ session = "u1"
    /\ InitBackend(<<ItemRow(1, "u2", "offer", "Shanghai", <<"A", "b">>),
                     ItemRow(2, "u2", "seek", "Beijing", <<>>),
                     ItemRow(3, "u1", "offer", "Shanghai", <<"B">>)>>)
    /\ LoadedPage("u1")

NextFilter ==
    \/ \E i \in TaskIds : fetchItems_done(i, TRUE)
    \/ openCity
    \/ \E c \in Cities : chooseCity(c)
    \/ closeModal
    \/ \E a \in AreaFilters \cup {<<"_">>} : setCurrentArea(a)

SpecFilter == InitFilter /\ [][NextFilter]_vars

\* C16: a fetchItems reply replaces the displayed list with the rows of the
\* city and the area filter its query was sent with, whatever city and area
\* are selected when it arrives and whatever other queries are in flight.
C16_ReplyShowsItsOwnFilter ==
    [][\A i \in TaskIds :
         fetchItems_done(i, TRUE)
         => /\ items' = SelectItems(tasks[i].city, tasks[i].area)
            /\ currentCity' = currentCity
            /\ currentArea' = currentArea]_vars

\* Every query has been answered, the last answer being that of an earlier
\* filter: Beijing is selected, and the grid shows the Shanghai listing.
C16_Witness ==
    /\ tasks = <<>>
    /\ ~isLoading
    /\ currentCity = "Beijing"
    /\ items # SelectItems(currentCity, currentArea)
    /\ items # <<>>
    /\ \E a \in AreaFilters : items = SelectItems("Shanghai", a)

\* The local conversation (page.tsx 384-396, 430-442): the loaded page of u1
\* and the listing of u2, no conversation yet.  The conversations insert can
\* end in every way, the session can change or end at any time, and the user
\* sends messages in the chat modal; they open, close and type when no request
\* is in flight.
InitTemp ==
    /\ session = "u1"
    /\ InitBackend(<<ItemRow(1, "u2", "offer", "Shanghai", <<>>)>>)
    /\ LoadedPage("u1")

NextTemp ==
    \/ \E i \in TaskIds, ok \in BOOLEAN : initConversation_lookup(i, ok)
    \/ \E i \in TaskIds, outcome \in InsertOutcomes : initConversation_inserted(i, outcome)
    \/ \E i \in TaskIds : initConversation_messages(i, TRUE)
    \/ \E i \in TaskIds, ok \in BOOLEAN : handleSendMessage_inserted(i, ok)
    \/ \E i \in TaskIds : handleSendMessage_touched(i, TRUE)
    \/ \E s \in Users \cup {NoUser} : s # session /\ onAuthStateChange(s)
    \/ \E k \in 1..MaxItems : tasks = <<>> /\ selectItem(k)
    \/ tasks = <<>> /\ openChat
    \/ tasks = <<>> /\ closeModal
    \/ \E t \in {<<" ">>, <<"h", " ">>} : tasks = <<>> /\ setMessageInput(t)
    \/ handleSendMessage

SpecTemp == InitTemp /\ [][NextTemp]_vars

\* C17: a handleSendMessage call with non-blank input while the current
\* conversation is the local one appends exactly one message, the trimmed
\* input, to the local list, sends no request and changes neither the
\* messages nor the conversations table; the local conversation is no row of
\* the conversations table, and the step that makes it the current
\* conversation writes none.
C17_LocalConversationWritesNothing ==
    [][/\ (/\ handleSendMessage
            /\ currentConversation.temp
            /\ trim(messageInput) # <<>>)
           => /\ Len(messages') = Len(messages) + 1
              /\ SubSeq(messages', 1, Len(messages)) = messages
              /\ messages'[Len(messages')].content = trim(messageInput)
              /\ messages'[Len(messages')].conversation_id = currentConversation.id
              /\ messages'[Len(messages')].local
              /\ tasks' = tasks
              /\ dbMessages' = dbMessages
              /\ dbConversations' = dbConversations
       /\ currentConversation'.temp
           => \A k \in DOMAIN dbConversations' :
                 dbConversations'[k].temp = FALSE
       /\ (currentConversation'.temp /\ currentConversation' # currentConversation)
           => dbConversations' = dbConversations]_vars

\* Two messages have been sent on the local conversation of listing 1: the
\* local list holds them, the first one typed with a trailing blank, and
\* both tables are empty.
C17_Witness ==
    /\ currentConversation.temp
    /\ user = "u1"
    /\ Len(messages) = 2
    /\ \A k \in DOMAIN messages : messages[k].local /\ messages[k].content = <<"h">>
    /\ dbMessages = <<>>
    /\ dbConversations = <<>>
    /\ tasks = <<>>

\* The call of handleSendMessage that passes the guard of page.tsx 422.
SendCall ==
    /\ handleSendMessage
    /\ user # NoUser
    /\ currentConversation # NoConversation
    /\ trim(messageInput) # <<>>

\* The local list got one more message, with the content text.
AppendedLocally(text) ==
    /\ Len(messages') = Len(messages) + 1
    /\ SubSeq(messages', 1, Len(messages)) = messages
    /\ messages'[Len(messages')].content = text

\* The messages table got one more row, of the conversation conv and with
\* the content text.
RowWritten(conv, text) ==
    /\ Len(dbMessages') = Len(dbMessages) + 1
    /\ SubSeq(dbMessages', 1, Len(dbMessages)) = dbMessages
    /\ dbMessages'[Len(dbMessages')].conversation_id = conv.id
    /\ dbMessages'[Len(dbMessages')].content = text

\* What a send on a persisted conversation does when its remote calls
\* succeed: the insert is sent for the current conversation, the stored row
\* is appended to the local list, and then the last_message_at of that
\* conversation, and of no other, is updated.
PersistedSendSucceeds ==
    /\ (SendCall /\ ~currentConversation.temp)
        => /\ Len(tasks') = Len(tasks) + 1
           /\ tasks'[Len(tasks')].kind = "handleSendMessage"
           /\ tasks'[Len(tasks')].pc = "insert"
           /\ tasks'[Len(tasks')].conv = currentConversation
           /\ tasks'[Len(tasks')].text = trim(messageInput)
           /\ UNCHANGED <<messages, dbMessages, dbConversations>>
    /\ \A i \in TaskIds :
         handleSendMessage_inserted(i, TRUE)
         => /\ RowWritten(tasks[i].conv, tasks[i].text)
            /\ AppendedLocally(tasks[i].text)
            /\ messages'[Len(messages')] = dbMessages'[Len(dbMessages')]
            /\ dbConversations' = dbConversations
            /\ tasks'[i].pc = "touch"
    /\ \A i \in TaskIds :
         handleSendMessage_touched(i, TRUE)
         => /\ \E k \in DOMAIN dbMessages :
                 /\ dbMessages[k].conversation_id = tasks[i].conv.id
                 /\ dbMessages[k].content = tasks[i].text
            /\ DOMAIN dbConversations' = DOMAIN dbConversations
            /\ \A k \in DOMAIN dbConversations :
                 IF dbConversations[k].id = tasks[i].conv.id
                 THEN /\ dbConversations'[k].last_message_at = now
                      /\ dbConversations'[k].last_message_at
                           >= dbConversations[k].last_message_at
                 ELSE dbConversations'[k] = dbConversations[k]
            /\ UNCHANGED <<messages, dbMessages>>

\* C18 as stated: every call that passes the guard appends its message to
\* the local list, on the local conversation at once and on a persisted one
\* whatever the answer to the insert; on a persisted conversation one row of
\* that conversation is written and then its last_message_at updated.
C18_EverySendAppends ==
    [][/\ (SendCall /\ currentConversation.temp)
           => AppendedLocally(trim(messageInput))
       /\ \A i \in TaskIds, ok \in BOOLEAN :
            handleSendMessage_inserted(i, ok) => AppendedLocally(tasks[i].text)
       /\ PersistedSendSucceeds]_vars

\* C18, amended: a call on the local conversation appends its message; a
\* call on a persisted conversation sends the insert, and when the insert
\* succeeds the row is written, appended to the local list, and the
\* conversation's last_message_at updated next; when the insert fails the
\* local list, the input and both tables stay as they are, the failure is
\* toasted and no update is sent.
C18_SendAppendsWhatIsStored ==
    [][/\ (SendCall /\ currentConversation.temp)
           => AppendedLocally(trim(messageInput))
       /\ \A i \in TaskIds :
            handleSendMessage_inserted(i, FALSE)
            => /\ UNCHANGED <<messages, messageInput, dbMessages, dbConversations>>
               /\ toast'.message = "send failed"
               /\ Len(tasks') = Len(tasks) - 1
               /\ \A j \in DOMAIN tasks' : tasks'[j].pc # "touch" \/ tasks'[j] \in Range(tasks)
       /\ PersistedSendSucceeds]_vars

\* A send on the persisted conversation of listing 1 has run to its end: the
\* row is stored and in the local list, and the conversation's
\* last_message_at is later than its creation.
C18_Witness ==
    /\ tasks = <<>>
    /\ ~isSubmitting
    /\ Len(dbMessages) = 1
    /\ messages = dbMessages
    /\ currentConversation \in Range(dbConversations)
    /\ \E k \in DOMAIN dbConversations :
         /\ dbConversations[k].id = dbMessages[1].conversation_id
         /\ dbConversations[k].last_message_at > dbConversations[k].created_at

\* Signing in (page.tsx 218-247): the page without a session, loaded; the
\* auth modal opens from the publish button, the visitor types an email and a
\* password, switches between sign-in and sign-up and submits; the session
\* can also start in another tab at any time.
InitAuth ==
    /\ session = NoUser
    /\ InitBackend(<<>>)
    /\ PageState(NoUser, DefaultEnergy, NoReputation, <<>>, FALSE, <<>>)

NextAuth ==
    \/ \E i \in TaskIds, outcome \in AuthOutcomes : handleAuth_done(i, outcome)
    \/ \E s \in Users : s # session /\ onAuthStateChange(s)
    \/ openPublish
    \/ closeModal
    \/ \E e \in Emails : setAuthEmail(e)
    \/ \E pw \in Passwords : setAuthPassword(pw)
    \/ toggleAuthMode
    \/ handleAuth

SpecAuth == InitAuth /\ [][NextAuth]_vars

\* C19: a handleAuth call with non-blank email and password sends one
\* sign-in or sign-up call.  When the call succeeds the local user is the
\* user it returns and no modal is open; when it fails the local user and
\* the modal are as they were (the auth modal, if open, stays open), the
\* error toast shows exactly the message of the remote error, and no call is
\* sent again.
C19_AuthSuccessAndFailure ==
    [][/\ (/\ handleAuth
            /\ \E k \in DOMAIN authForm.email : authForm.email[k] # " "
            /\ \E m \in DOMAIN authForm.password : authForm.password[m] # " ")
           => /\ Len(tasks') = Len(tasks) + 1
              /\ SubSeq(tasks', 1, Len(tasks)) = tasks
              /\ tasks'[Len(tasks')].kind = "handleAuth"
              /\ tasks'[Len(tasks')].auth = authForm
              /\ user' = user /\ activeModal' = activeModal
       /\ \A i \in TaskIds, outcome \in AuthOutcomes :
            handleAuth_done(i, outcome)
            => IF outcome = "ok"
               THEN /\ user' = AccountOf(trim(tasks[i].auth.email))
                    /\ user' \in Users
                    /\ activeModal' = NoModal
               ELSE /\ user' = user
                    /\ session' = session
                    /\ activeModal' = activeModal
                    /\ authForm' = authForm
                    /\ toast' = [message |-> outcome, type |-> "error"]
                    /\ Len(tasks') = Len(tasks) - 1
                    /\ \A j \in DOMAIN tasks' : tasks'[j] \in Range(tasks)]_vars

\* A sign-in has been refused: no user, the auth modal open with the form as
\* typed, and the toast showing the message of the error.
C19_Witness ==
    /\ user = NoUser
    /\ activeModal = "auth"
    /\ tasks = <<>>
    /\ ~isSubmitting
    /\ authForm.email = <<"1">> /\ authForm.password = <<"p">>
    /\ toast = [message |-> "Email not confirmed", type |-> "error"]

\* The conversation c is of the listing `listing`, from the user uid to the
\* owner the items table has for that listing, and they are two users.
FromInitiatorToOwner(c, uid, listing) ==
    /\ c.item_id = listing
    /\ c.participant1_id = uid
    /\ c.participant1_id \in Users
    /\ \E k \in DOMAIN dbItems :
         dbItems[k].id = listing /\ dbItems[k].user_id = c.participant2_id
    /\ c.participant1_id # c.participant2_id

\* C20: a run of initConversation is started for the user of the render and
\* the selected listing; the conversation it creates, the stored row or the
\* local one, has that user as participant1_id and the owner of the listing
\* as participant2_id, two different users; so has every row of the
\* conversations table.
C20_ParticipantsAreInitiatorAndOwner ==
    [][/\ \A j \in DOMAIN tasks' :
            (/\ tasks'[j].kind = "initConversation"
             /\ tasks'[j].pc = "lookup"
             /\ tasks'[j] \notin Range(tasks))
            => /\ tasks'[j].uid = user'
               /\ tasks'[j].item = selectedItem'
       /\ \A i \in TaskIds, outcome \in InsertOutcomes :
            (initConversation_inserted(i, outcome)
             /\ (outcome = "ok" \/ isTableMissing(outcome)))
            => /\ FromInitiatorToOwner(currentConversation', tasks[i].uid,
                                       tasks[i].item.id)
               /\ currentConversation'.temp = (outcome # "ok")
               /\ IF outcome = "ok"
                  THEN dbConversations' = Append(dbConversations, currentConversation')
                  ELSE dbConversations' = dbConversations
       /\ \A k \in DOMAIN dbConversations' :
            FromInitiatorToOwner(dbConversations'[k],
                                 dbConversations'[k].participant1_id,
                                 dbConversations'[k].item_id)]_vars

\* u2 has started a conversation on the listing of u1, which is stored, and
\* the current conversation is the local one of u1 on the listing of u2.
C20_Witness ==
    /\ \E k \in DOMAIN dbConversations :
         /\ dbConversations[k].participant1_id = "u2"
         /\ dbConversations[k].participant2_id = "u1"
         /\ dbConversations[k].item_id = 2
    /\ currentConversation.temp
    /\ currentConversation.participant1_id = "u1"
    /\ currentConversation.participant2_id = "u2"
    /\ currentConversation.item_id = 1

\* The text f, letters folded, is a part of the text s.
ContainsFolded(s, f) ==
    \E a \in 0..(Len(s) - Len(f)) :
       \A j \in 1..Len(f) : ToLower(s[a + j]) = ToLower(f[j])

\* The listings the grid is to show for a city and an area filter.
ActiveListings(city, filter) ==
    {r \in Range(dbItems) :
       /\ r.status = "active"
       /\ r.city = city
       /\ (filter = <<>> \/ ContainsFolded(r.area, filter))}

\* The list rows is exactly the set of listings `wanted`, newest first.
ShowsNewestFirst(rows, wanted) ==
    /\ Range(rows) = wanted
    /\ Len(rows) = Cardinality(wanted)
    /\ \A k \in 1..(Len(rows) - 1) : rows[k].created_at >= rows[k + 1].created_at

\* C21: a fetchItems request that completes successfully while no other
\* fetch is in flight leaves in the grid exactly the active listings of the
\* selected city whose area contains the filter text, letters folded (all of
\* the city when the filter is empty), newest first.
C21_FetchShowsSelectedFilter ==
    [][\A i \in TaskIds :
         (fetchItems_done(i, TRUE) /\ Len(tasks) = 1)
         => ShowsNewestFirst(items', ActiveListings(currentCity', currentArea'))]_vars

\* C22: in the energy-delta variant, when the items insert of handlePublish
\* fails, the run ends there: no profile update and no second insert is sent,
\* the stored and the local energy, the items table, the draft and the open
\* modal are as they were, and the failure is toasted.
C22_FailedInsertAbandonsPublish ==
    [][\A i \in TaskIds :
         handlePublish_inserted(i, FALSE)
         => /\ profiles' = profiles
            /\ energy' = energy
            /\ dbItems' = dbItems
            /\ postForm' = postForm
            /\ activeModal' = activeModal
            /\ toast' = [message |-> "insert failed", type |-> "error"]
            /\ ~isSubmitting'
            /\ Len(tasks') = Len(tasks) - 1
            /\ \A j \in DOMAIN tasks' :
                 /\ tasks'[j] \in Range(tasks)
                 /\ tasks'[j] # tasks[i] \/ \E m \in DOMAIN tasks : m # i /\ tasks[m] = tasks[i]]_vars

\* The insert of a seek was refused: the publish modal is open with the
\* draft as typed, nothing is stored, and the energy is the stored one.
C22_Witness ==
    /\ toast.message = "insert failed"
    /\ activeModal = "publish"
    /\ postForm.title = <<"a">>
    /\ postForm.type = "seek"
    /\ user # NoUser
    /\ energy = profiles[user]
    /\ profiles = InitialProfiles
    /\ dbItems = <<>>
    /\ ~isSubmitting

\* C23: the conversations insert of initConversation makes the local
\* conversation the current one when, and only when, it fails with the code
\* PGRST116 or a message holding 'not exist'; after any other failure of the
\* insert there is no current conversation, so that handleSendMessage
\* returns at its guard, and the failure is toasted as a failed
\* initialisation.
C23_OnlyTableAbsentGoesLocal ==
    [][/\ \A i \in TaskIds, outcome \in InsertOutcomes \ {"ok"} :
            initConversation_inserted(i, outcome)
            => IF isTableMissing(outcome)
               THEN /\ currentConversation'.temp
                    /\ currentConversation'.item_id = tasks[i].item.id
               ELSE /\ currentConversation' = NoConversation
                    /\ toast'.message = "conversation init failed"
       /\ (currentConversation'.temp /\ currentConversation' # currentConversation)
           => \E i \in TaskIds, outcome \in {"PGRST116", "not exist"} :
                 initConversation_inserted(i, outcome)]_vars

\* C24: when the messages insert of handleSendMessage fails, the run ends
\* there: the local list and the input are as they were, no row of messages
\* or conversations changes, no last_message_at update and no second insert
\* is sent, and the failure is toasted.
C24_FailedSendChangesNothing ==
    [][\A i \in TaskIds :
         handleSendMessage_inserted(i, FALSE)
         => /\ ~tasks[i].conv.temp
            /\ messages' = messages
            /\ messageInput' = messageInput
            /\ dbMessages' = dbMessages
            /\ dbConversations' = dbConversations
            /\ toast' = [message |-> "send failed", type |-> "error"]
            /\ ~isSubmitting'
            /\ Len(tasks') = Len(tasks) - 1
            /\ \A j \in DOMAIN tasks' :
                 tasks'[j] \in Range(tasks) /\ tasks'[j].kind # "handleSendMessage"]_vars

\* The send of "h" on the stored conversation was refused: the input still
\* holds the text, the local list is the history, and the tables are as they
\* were when the page was opened.
C24_Witness ==
    /\ toast.message = "send failed"
    /\ activeModal = "chat"
    /\ messageInput = <<"h">>
    /\ currentConversation \in Range(dbConversations)
    /\ messages = dbMessages
    /\ Len(dbMessages) = 1
    /\ dbConversations[1].last_message_at = 3
    /\ tasks = <<>>

\* C25: the update of handleUpdateItem leaves every listing that is inactive
\* when the update takes effect as it is.
C25_UpdateOnlyActiveListings ==
    [][\A i \in TaskIds :
         handleUpdateItem_updated(i, TRUE)
         => \A k \in DOMAIN dbItems :
               dbItems[k].status = "inactive" => dbItems'[k] = dbItems[k]]_vars

\* The rows a and b differ at most in the fields `fields`.
SameExcept(a, b, fields) ==
    \A f \in DOMAIN a \ fields : a[f] = b[f]

\* C26: handleUpdateItem sends its update for the listing of editingItem; a
\* successful update changes at most the title, description, type and area
\* of the row with that id and no other row; a successful update of
\* handleDeleteItem changes at most the status of the row it was called for
\* and no other row.  Neither adds or removes a row.
C26_EditAndRevokeFrame ==
    [][/\ \A j \in DOMAIN tasks' :
            (tasks'[j].kind = "handleUpdateItem" /\ tasks'[j].pc = "update"
             /\ tasks'[j] \notin Range(tasks))
            => tasks'[j].item = editingItem /\ editingItem # NoItem
       /\ \A i \in TaskIds :
            handleUpdateItem_updated(i, TRUE)
            => /\ DOMAIN dbItems' = DOMAIN dbItems
               /\ \A k \in DOMAIN dbItems :
                    IF dbItems[k].id = tasks[i].item.id
                    THEN SameExcept(dbItems[k], dbItems'[k],
                                    {"title", "description", "type", "area"})
                    ELSE dbItems'[k] = dbItems[k]
               /\ Cardinality({k \in DOMAIN dbItems : dbItems'[k] # dbItems[k]}) <= 1
       /\ \A i \in TaskIds :
            handleDeleteItem_updated(i, TRUE)
            => /\ DOMAIN dbItems' = DOMAIN dbItems
               /\ \A k \in DOMAIN dbItems :
                    IF dbItems[k].id = tasks[i].item.id
                    THEN SameExcept(dbItems[k], dbItems'[k], {"status"})
                    ELSE dbItems'[k] = dbItems[k]
               /\ Cardinality({k \in DOMAIN dbItems : dbItems'[k] # dbItems[k]}) <= 1]_vars

\* u1 has saved an edit of their listing 1 that changed its type: the row
\* has the new type and is otherwise as it was, and listing 2 is as it was.
C26_Witness ==
    \E i \in TaskIds :
       /\ tasks[i].kind = "handleUpdateItem"
       /\ tasks[i].pc = "fetchUserItems"
       /\ tasks[i].uid = "u1"
       /\ tasks[i].item.id = 1
       /\ dbItems[1] = [ItemRow(1, "u1", "offer", "Shanghai", <<>>) EXCEPT !.type = "seek"]
       /\ dbItems[2] = ItemRow(2, "u2", "offer", "Shanghai", <<>>)

\* C27: in the tier variant, posting offers takes a user of the lowest tier
\* towards the tier that may seek: every successful insert of an offer by a
\* user whose stored energy is at most 1 raises that user's energy, stored or
\* shown.
C27_OffersEarnSeekTier ==
    [][\A i \in TaskIds :
         (/\ handlePublishTier_inserted(i, TRUE)
          /\ tasks[i].form.type = "offer"
          /\ profiles[tasks[i].uid] <= Tier1Max)
         => \/ profiles'[tasks[i].uid] > profiles[tasks[i].uid]
            \/ energy' > energy]_vars

\* Unmounting (page.tsx 128-131): the page of SpecAuth, whose view can be
\* unmounted at any time.  The session goes on changing in other tabs, to
\* another user or to none, and a sign-in call that was in flight completes.
NextUnmount ==
    \/ subscription = "active" /\ NextAuth
    \/ unmount
    \/ \E s \in Users \cup {NoUser} : s # session /\ onAuthStateChange(s)
    \/ \E i \in TaskIds, outcome \in AuthOutcomes : handleAuth_done(i, outcome)

SpecUnmount == InitAuth /\ [][NextUnmount]_vars

\* C28: while the view is mounted every session-change notification sets the
\* local user to the notified identity, or to none when there is none; the
\* unmount cancels the subscription for good, and after it a session change
\* leaves the local user and the rest of the view as they were.
C28_NotifiedUntilUnmount ==
    [][/\ \A s \in Users \cup {NoUser} :
            onAuthStateChange(s)
            => IF subscription = "active"
               THEN user' = s
               ELSE user' = user /\ UNCHANGED <<uiVars, tasks>>
       /\ unmount => subscription' = "unsubscribed"
       /\ subscription = "unsubscribed" => subscription' = "unsubscribed"]_vars

\* The view was unmounted while u1 was signed in, and the session has since
\* become u2's.
C28_Witness ==
    /\ subscription = "unsubscribed"
    /\ user = "u1"
    /\ session = "u2"

\* C29: whenever the chat modal is open on a selected listing and there is a
\* current conversation, that conversation is about the selected listing.
C29_ConversationOfViewedListing ==
    (/\ activeModal = "chat"
     /\ selectedItem # NoItem
     /\ currentConversation # NoConversation)
    => currentConversation.item_id = selectedItem.id

\* C30: while the chat modal stays open on a conversation, a message of that
\* conversation in the local list stays in the local list; the list is empty
\* when the chat opens, so a message in it before the history arrives was
\* appended by a successful handleSendMessage.
C30_SentMessageStays ==
    [][(/\ activeModal = "chat" /\ activeModal' = "chat"
        /\ currentConversation # NoConversation
        /\ currentConversation' = currentConversation)
       => \A k \in DOMAIN messages :
            messages[k].conversation_id = currentConversation.id
            => \E j \in DOMAIN messages' : messages'[j] = messages[k]]_vars

\* A third account (page.tsx 348-470): the loaded page of u1 and the listing
\* of u3, an account that never signs in on this device.  u1 opens the chat and
\* sends messages, and u2 or u1 signs in from another tab when no request is
\* in flight.  The conversations insert can end in every way and a messages
\* insert can fail; the reads succeed.
InitThird ==
    /\ session = "u1"
    /\ InitBackend(<<ItemRow(1, "u3", "offer", "Shanghai", <<>>)>>)
    /\ LoadedPage("u1")

NextThird ==
    \/ \E i \in TaskIds : initConversation_lookup(i, TRUE)
    \/ \E i \in TaskIds, outcome \in InsertOutcomes : initConversation_inserted(i, outcome)
    \/ \E i \in TaskIds : initConversation_messages(i, TRUE)
    \/ \E i \in TaskIds, ok \in BOOLEAN : handleSendMessage_inserted(i, ok)
    \/ \E i \in TaskIds : handleSendMessage_touched(i, TRUE)
    \/ \E s \in Users : s # session /\ tasks = <<>> /\ onAuthStateChange(s)
    \/ \E k \in 1..MaxItems : tasks = <<>> /\ selectItem(k)
    \/ tasks = <<>> /\ openChat
    \/ tasks = <<>> /\ closeModal
    \/ tasks = <<>> /\ setMessageInput(<<"h">>)
    \/ handleSendMessage

SpecThird == InitThird /\ [][NextThird]_vars

\* Message m goes from one participant of conversation c to the other.
BetweenParticipants(m, c) ==
    /\ m.sender_id # m.receiver_id
    /\ {m.sender_id, m.receiver_id} = {c.participant1_id, c.participant2_id}

\* C31: every message row handleSendMessage writes, and every message it
\* appends on the local conversation, goes from one participant of the
\* message's conversation to the other, also when the signed-in user changed
\* while the chat was open.
C31_MessagesBetweenParticipants ==
    [][/\ \A i \in TaskIds :
            handleSendMessage_inserted(i, TRUE)
            => \A k \in DOMAIN dbConversations :
                 dbConversations[k].id = dbMessages'[Len(dbMessages')].conversation_id
                 => BetweenParticipants(dbMessages'[Len(dbMessages')],
                                        dbConversations[k])
       /\ (/\ handleSendMessage
           /\ currentConversation.temp
           /\ Len(messages') = Len(messages) + 1)
          => BetweenParticipants(messages'[Len(messages')], currentConversation)]_vars

\* C32: whenever a user is signed in and neither a handlePublish nor the
\* profile load of initAuth is in flight, the local energy is the energy of
\* that user's stored profile.
C32_LocalEnergyIsStoredEnergy ==
    (/\ user # NoUser
     /\ \A i \in TaskIds : tasks[i].kind \notin {"handlePublish", "initAuth"})
    => energy = profiles[user]

\* The busy flags (page.tsx): the page is opened without a session on the
\* listing of u2.  The visitor signs in as u1, posts a listing, edits and
\* revokes it from the profile modal, opens the chat of u2's listing and sends
\* a message, acting when no request is in flight.  Every write, the sign-in
\* call, getSession, the first list fetch and the conversations lookup can
\* fail; every remote call returns.
InitFlags ==
    /\ session = NoUser
    /\ InitBackend(<<ItemRow(1, "u2", "offer", "Shanghai", <<>>)>>)
    /\ InitPage

\* A remote call returns and the run that awaited it goes on.
Replies ==
    \/ \E i \in TaskIds, ok \in BOOLEAN : initAuth_session(i, ok)
    \/ \E i \in TaskIds, ok \in BOOLEAN : fetchItems_done(i, ok)
    \/ \E i \in TaskIds : fetchUserItems_done(i, TRUE)
    \/ \E i \in TaskIds, outcome \in {"ok", "Invalid login credentials"} :
         handleAuth_done(i, outcome)
    \/ \E i \in TaskIds, ok \in BOOLEAN : handlePublish_inserted(i, ok)
    \/ \E i \in TaskIds : handlePublish_settled(i, TRUE)
    \/ \E i \in TaskIds : handlePublish_fetched(i, TRUE)
    \/ \E i \in TaskIds, ok \in BOOLEAN : handleUpdateItem_updated(i, ok)
    \/ \E i \in TaskIds : handleUpdateItem_userFetched(i, TRUE)
    \/ \E i \in TaskIds : handleUpdateItem_fetched(i, TRUE)
    \/ \E i \in TaskIds, ok \in BOOLEAN : handleDeleteItem_updated(i, ok)
    \/ \E i \in TaskIds : handleDeleteItem_userFetched(i, TRUE)
    \/ \E i \in TaskIds : handleDeleteItem_fetched(i, TRUE)
    \/ \E i \in TaskIds, ok \in BOOLEAN : initConversation_lookup(i, ok)
    \/ \E i \in TaskIds, outcome \in {"ok", "denied"} :
         initConversation_inserted(i, outcome)
    \/ \E i \in TaskIds : initConversation_messages(i, TRUE)
    \/ \E i \in TaskIds, ok \in BOOLEAN : handleSendMessage_inserted(i, ok)
    \/ \E i \in TaskIds : handleSendMessage_touched(i, TRUE)

NextFlags ==
    \/ Replies
    \/ tasks = <<>> /\ openPublish
    \/ tasks = <<>> /\ openProfile
    \/ tasks = <<>> /\ closeModal
    \/ tasks = <<>> /\ setAuthEmail(<<"1">>)
    \/ tasks = <<>> /\ setAuthPassword(<<"p">>)
    \/ tasks = <<>> /\ handleAuth
    \/ tasks = <<>> /\ setPostTitle(<<"a">>)
    \/ tasks = <<>> /\ handlePublish
    \/ \E k \in 1..MaxItems : tasks = <<>> /\ handleEditItem(k)
    \/ tasks = <<>> /\ handleUpdateItem
    \/ \E k \in 1..MaxItems : tasks = <<>> /\ handleDeleteItem(k, TRUE)
    \/ \E k \in 1..MaxItems : tasks = <<>> /\ selectItem(k)
    \/ tasks = <<>> /\ openChat
    \/ tasks = <<>> /\ setMessageInput(<<"h">>)
    \/ tasks = <<>> /\ dbMessages = <<>> /\ handleSendMessage

\* Every remote call eventually returns.
SpecFlags == InitFlags /\ [][NextFlags]_vars /\ WF_vars(Replies)

====
